---- MODULE Spec2Model ----
(***************************************************************************)
(* The stacks-signer run loop (stacks-signer/src/runloop.rs): one node's   *)
(* RunLoop driven pass by pass through run_one_pass.  The Coordinator and  *)
(* Signer state machines (wsts), the stacks node client and the stacker-db *)
(* client are the environment: every answer they give is an input of the   *)
(* step that asks for it, and every call made to them is appended to       *)
(* `trace`, the log of the calls made in the current step of the pass      *)
(* (initialization, event dispatch, or command processing).                *)
(***************************************************************************)
EXTENDS Integers, Sequences, FiniteSets, TLC

\* ------------------------------------------------------------------ bounds
\* signer ids of the committee are 0..MaxSignerId
MaxSignerId == 1
\* commands appended to the back of the queue over one behaviour
MaxCommands == 3
\* key ids of a Config given to RunLoop::from are 0..MaxKeyIds
MaxKeyIds == 20
\* chunks (modified slots) in one stacker-db event
MaxChunks == 2
\* failed start attempts the Coordinator makes in one pass
MaxFails == 2
\* retries retry_with_exponential_backoff makes before it gives up
MaxRetries == 1

\* ------------------------------------------------------------ option type
None == <<>>
Some(x) == <<x>>
IsSome(o) == o # <<>>
Unwrap(o) == o[1]

\* ----------------------------------------------------------------- helpers
Range(s) == {s[i] : i \in 1..Len(s)}
PushFront(s, x) == <<x>> \o s
Last(s) == s[Len(s)]

\* ------------------------------------------------------------ data model
\* RunLoopCommand
Dkg == [type |-> "Dkg"]
Sign(message, is_taproot, merkle_root) ==
    [type |-> "Sign", message |-> message, is_taproot |-> is_taproot,
     merkle_root |-> merkle_root]

\* State
States == {"Uninitialized", "Idle", "Dkg", "Sign"}

\* the committee's PublicKeys.signers: signer id -> ecdsa public key
PublicKeyOf(id) == 100 + id
public_keys == [signers |-> [id \in 0..MaxSignerId |-> PublicKeyOf(id)]]

\* the aggregate public key the pox contract may hold (a Point)
AggregateKeys == {"agg_key"}

\* what StacksClient::get_aggregate_public_key can answer
NodeResponses ==
    {[ok |-> FALSE, key |-> None]} \cup
    {[ok |-> TRUE, key |-> k] : k \in {None} \cup {Some(a) : a \in AggregateKeys}}

\* messages an operator asks to sign (byte vectors) and merkle roots
OperatorMessages == {<<1>>}
MerkleRoots == {None, Some(32)}
OperatorCommands ==
    {Dkg} \cup {Sign(m, t, r) : m \in OperatorMessages, t \in BOOLEAN, r \in MerkleRoots}

\* NakamotoBlock proposals and their serialization to bytes
Blocks == {[header |-> 1], [header |-> 2]}
serialize_to_vec(block) == <<0, block.header>>
\* what StacksClient::is_valid_nakamoto_block can answer for a block
Answers == {"valid", "invalid", "error"}

\* wsts packets: a message and the key that signed it (99: no signer's key)
Packets == {[msg |-> 1, sig |-> PublicKeyOf(0)], [msg |-> 2, sig |-> PublicKeyOf(1)],
            [msg |-> 3, sig |-> 99]}
\* Packet::verify against the committee's keys
verify(packet, pks, coordinator_public_key) ==
    \E id \in DOMAIN pks.signers : pks.signers[id] = packet.sig

\* the data of a stacker-db chunk, and its decoding by read_next::<StackerDBMessage>
ChunkData ==
    {[tag |-> "junk"]} \cup {[tag |-> "packet", packet |-> p] : p \in Packets}
        \cup {[tag |-> "block", block |-> b] : b \in Blocks}
read_next(data) == IF data.tag \in {"packet", "block"} THEN Some(data) ELSE None

\* StackerDBChunksEvent: the contract it came from and its modified slots
RECURSIVE SeqsUpTo(_, _)
SeqsUpTo(S, n) ==
    IF n = 0 THEN {<<>>}
    ELSE LET shorter == SeqsUpTo(S, n - 1)
         IN shorter \cup {Append(q, x) : q \in shorter, x \in S}

\* what the Signer and Coordinator state machines can answer to
\* process_inbound_messages, and the OperationResults of a finished round
OperationResults == {"Dkg", "Sign", "SignTaproot", "DkgError", "SignError"}
SignerAnswers ==
    {[ok |-> FALSE, messages |-> <<>>]} \cup
    {[ok |-> TRUE, messages |-> m] : m \in {<<>>, <<"s1">>}}
CoordinatorAnswers ==
    {[ok |-> FALSE, messages |-> <<>>, results |-> <<>>]} \cup
    {[ok |-> TRUE, messages |-> m, results |-> r] :
        m \in {<<>>, <<"c1">>}, r \in {<<>>} \cup {<<o>> : o \in OperationResults}}

\* calculate_coordinator: the first signer id and its public key
calculate_coordinator(pks) == <<0, pks.signers[0]>>
\* a call of calculate_coordinator: signers.get(&0).unwrap() panics when the key
\* set registers no signer 0
calculate_coordinator_call(pks) ==
    IF 0 \in DOMAIN pks.signers
    THEN [panic |-> FALSE, value |-> calculate_coordinator(pks)]
    ELSE [panic |-> TRUE]

\* Config: the committee's keys (signer_ids_public_keys.signers, and how many
\* key ids signer_ids_public_keys.key_ids holds) and the key ids of each signer
\* (signer_key_ids, one entry per signer)
ConfigOf(signers, key_ids) ==
    [signers |-> signers, key_ids |-> key_ids, signer_key_ids |-> DOMAIN signers]
\* mutant of threshold: the division is made before the multiplication
threshold_divide_first(key_ids) == (key_ids \div 10) * 7
\* RunLoop::from, the thresholds: (key_ids.len() * 7) / 10 and (key_ids.len() * 9) / 10
threshold(key_ids) == (key_ids * 7) \div 10
\* mutant of dkg_threshold: the division is done before the multiplication
dkg_threshold_divide_first(key_ids) == (key_ids \div 10) * 9
dkg_threshold(key_ids) == (key_ids * 9) \div 10
\* RunLoop::from(&Config) of the signer `id`, as far as the CoordinatorConfig goes;
\* signer_key_ids.get(&config.signer_id).unwrap() panics for a signer without key ids
from(cfg, id) ==
    IF id \notin cfg.signer_key_ids
    THEN [panic |-> TRUE]
    ELSE [panic |-> FALSE,
          threshold |-> threshold(cfg.key_ids),
          dkg_threshold |-> dkg_threshold(cfg.key_ids),
          num_signers |-> Cardinality(DOMAIN cfg.signers),
          num_keys |-> cfg.key_ids]
\* the Config of the committee: one key id per signer
CommitteeConfig == ConfigOf(public_keys.signers, MaxSignerId + 1)

VARIABLES
    state,            \* RunLoop.state
    commands,         \* RunLoop.commands (VecDeque<RunLoopCommand>)
    signer_id,        \* RunLoop.signing_round.signer_id
    aggregate_key,    \* the key installed in RunLoop.coordinator (Option)
    pc,               \* where run_one_pass stands
    retries,          \* retries made so far by retry_with_exponential_backoff
    command,          \* the command popped by process_next_command in this pass (Option)
    command_id,       \* history: the id of that command
    trace,            \* calls made to the capabilities in the current step of the pass
    command_ids,      \* history: for each queue entry, when it was appended
    started,          \* history: ids of the commands whose round was started
    next_id,          \* history: id given to the next command appended
    in_flight,        \* history: rounds started and not yet finished
    dispatched,       \* history: the event and the answers given to the event step
                      \* of the pass (Option; recorded under EventSpec only)
    returned,         \* what run_one_pass returned (Option: None while the pass runs)
    round,            \* the round that the Coordinator is running (Option; recorded
                      \* under RoundSpec only)
    config,           \* the Config that RunLoop::from is given
    coordinator_config, \* the CoordinatorConfig that RunLoop::from built (Option)
    selected,         \* the result of a call of calculate_coordinator (Option)
    analysis          \* a call of run_analysis: its arguments and how far it is (Option)

vars == <<state, commands, signer_id, aggregate_key, pc, retries, command, command_id, trace,
          command_ids, started, next_id, in_flight, dispatched, returned, round,
          config, coordinator_config, selected, analysis>>

\* the id of the Dkg command that initialize() pushes to the front
InitId == 0

\* RunLoop::from(&Config): an empty queue, State::Uninitialized
InitLoop ==
    /\ state = "Uninitialized"
    /\ commands = <<>>
    /\ signer_id \in 0..MaxSignerId
    /\ aggregate_key = None
    /\ pc = "wait"
    /\ retries = 0
    /\ command = None
    /\ command_id = InitId
    /\ trace = <<>>
    /\ command_ids = <<>>
    /\ started = <<>>
    /\ next_id = 1
    /\ in_flight = 0
    /\ dispatched = None
    /\ returned = None
    /\ round = None
    /\ selected = None

\* the run loop of a signer of the committee, built from the committee's Config
Init ==
    /\ InitLoop
    /\ config = CommitteeConfig
    /\ coordinator_config = Some(from(config, signer_id))
    /\ analysis = None

\* ------------------------------------------------------------ run_one_pass
\* mutant of run_one_pass_cmd: the command is pushed to the front
run_one_pass_cmd_push_front(cmd) ==
    /\ pc = "wait"
    /\ IF IsSome(cmd)
       THEN /\ commands' = PushFront(commands, Unwrap(cmd))
            /\ command_ids' = PushFront(command_ids, next_id)
            /\ next_id' = next_id + 1
       ELSE UNCHANGED <<commands, command_ids, next_id>>
    /\ trace' = <<>>
    /\ retries' = 0
    /\ command' = None
    /\ pc' = IF state = "Uninitialized" THEN "init" ELSE "event"
    /\ UNCHANGED <<state, signer_id, aggregate_key, command_id, started, in_flight>>
    /\ returned' = None
    /\ UNCHANGED <<config, coordinator_config, selected, analysis>>

\* mutant of run_one_pass_cmd: a command that arrives while a round is in flight
\* is dropped
run_one_pass_cmd_dropped_in_flight(cmd) ==
    /\ pc = "wait"
    /\ IF IsSome(cmd) /\ state \notin {"Dkg", "Sign"}
       THEN /\ commands' = Append(commands, Unwrap(cmd))
            /\ command_ids' = Append(command_ids, next_id)
            /\ next_id' = next_id + 1
       ELSE UNCHANGED <<commands, command_ids, next_id>>
    /\ trace' = <<>>
    /\ retries' = 0
    /\ command' = None
    /\ pc' = IF state = "Uninitialized" THEN "init" ELSE "event"
    /\ UNCHANGED <<state, signer_id, aggregate_key, command_id, started, in_flight>>
    /\ returned' = None
    /\ UNCHANGED <<config, coordinator_config, selected, analysis>>

\* run_one_pass, "if let Some(command) = cmd": the command is pushed to the back
run_one_pass_cmd(cmd) ==
    /\ pc = "wait"
    /\ IF IsSome(cmd)
       THEN /\ commands' = Append(commands, Unwrap(cmd))
            /\ command_ids' = Append(command_ids, next_id)
            /\ next_id' = next_id + 1
       ELSE UNCHANGED <<commands, command_ids, next_id>>
    /\ trace' = <<>>
    /\ retries' = 0
    /\ command' = None
    /\ pc' = IF state = "Uninitialized" THEN "init" ELSE "event"
    /\ UNCHANGED <<state, signer_id, aggregate_key, command_id, started, in_flight>>
    /\ returned' = None
    /\ UNCHANGED <<config, coordinator_config, selected, analysis>>

\* the parts of initialize() that its mutants share
initialize_asked(response) ==
    Append(trace, [call |-> "get_aggregate_public_key", response |-> response])
initialize_has_key(response) ==
    /\ aggregate_key' = response.key
    /\ trace' = Append(initialize_asked(response),
                       [call |-> "set_aggregate_public_key", key |-> response.key])

\* mutant of initialize: the Dkg command is pushed to the back of the queue
initialize_push_back(response, ret) ==
    IF ~response.ok
    THEN /\ ret = "Err"
         /\ trace' = initialize_asked(response)
         /\ UNCHANGED <<state, commands, command_ids, aggregate_key>>
    ELSE /\ ret = "Ok"
         /\ IF IsSome(response.key)
            THEN initialize_has_key(response) /\ UNCHANGED <<commands, command_ids>>
            ELSE /\ IF /\ calculate_coordinator(public_keys)[1] = signer_id
                       /\ (commands = <<>> \/ Head(commands) # Dkg)
                    THEN /\ commands' = Append(commands, Dkg)
                         /\ command_ids' = Append(command_ids, InitId)
                    ELSE UNCHANGED <<commands, command_ids>>
                 /\ trace' = initialize_asked(response)
                 /\ UNCHANGED aggregate_key
         /\ state' = "Idle"

\* mutant of initialize: the Dkg command is queued whether or not the key is set
initialize_always_dkg(response, ret) ==
    IF ~response.ok
    THEN /\ ret = "Err"
         /\ trace' = initialize_asked(response)
         /\ UNCHANGED <<state, commands, command_ids, aggregate_key>>
    ELSE /\ ret = "Ok"
         /\ IF IsSome(response.key)
            THEN initialize_has_key(response)
            ELSE trace' = initialize_asked(response) /\ UNCHANGED aggregate_key
         /\ IF /\ calculate_coordinator(public_keys)[1] = signer_id
               /\ (commands = <<>> \/ Head(commands) # Dkg)
            THEN /\ commands' = PushFront(commands, Dkg)
                 /\ command_ids' = PushFront(command_ids, InitId)
            ELSE UNCHANGED <<commands, command_ids>>
         /\ state' = "Idle"

\* mutant of initialize: the Dkg command is queued before the stacks node is asked
initialize_enqueue_first(response, ret) ==
    /\ IF /\ ~(response.ok /\ IsSome(response.key))
          /\ calculate_coordinator(public_keys)[1] = signer_id
          /\ (commands = <<>> \/ Head(commands) # Dkg)
       THEN /\ commands' = PushFront(commands, Dkg)
            /\ command_ids' = PushFront(command_ids, InitId)
       ELSE UNCHANGED <<commands, command_ids>>
    /\ IF ~response.ok
       THEN /\ ret = "Err"
            /\ trace' = initialize_asked(response)
            /\ UNCHANGED <<state, aggregate_key>>
       ELSE /\ ret = "Ok"
            /\ IF IsSome(response.key)
               THEN initialize_has_key(response)
               ELSE trace' = initialize_asked(response) /\ UNCHANGED aggregate_key
            /\ state' = "Idle"

\* mutant of initialize: the Dkg command is pushed without a look at the queue
initialize_no_front_check(response, ret) ==
    IF ~response.ok
    THEN /\ ret = "Err"
         /\ trace' = initialize_asked(response)
         /\ UNCHANGED <<state, commands, command_ids, aggregate_key>>
    ELSE /\ ret = "Ok"
         /\ IF IsSome(response.key)
            THEN initialize_has_key(response) /\ UNCHANGED <<commands, command_ids>>
            ELSE /\ IF calculate_coordinator(public_keys)[1] = signer_id
                    THEN /\ commands' = PushFront(commands, Dkg)
                         /\ command_ids' = PushFront(command_ids, InitId)
                    ELSE UNCHANGED <<commands, command_ids>>
                 /\ trace' = initialize_asked(response)
                 /\ UNCHANGED aggregate_key
         /\ state' = "Idle"

\* mutant of initialize: the Dkg command is queued on every node
initialize_any_node(response, ret) ==
    IF ~response.ok
    THEN /\ ret = "Err"
         /\ trace' = initialize_asked(response)
         /\ UNCHANGED <<state, commands, command_ids, aggregate_key>>
    ELSE /\ ret = "Ok"
         /\ IF IsSome(response.key)
            THEN initialize_has_key(response) /\ UNCHANGED <<commands, command_ids>>
            ELSE /\ IF commands = <<>> \/ Head(commands) # Dkg
                    THEN /\ commands' = PushFront(commands, Dkg)
                         /\ command_ids' = PushFront(command_ids, InitId)
                    ELSE UNCHANGED <<commands, command_ids>>
                 /\ trace' = initialize_asked(response)
                 /\ UNCHANGED aggregate_key
         /\ state' = "Idle"

\* initialize(): one call, answered `response` by the stacks node; ret is its result
initialize(response, ret) ==
    IF ~response.ok
    THEN \* the `?` returns the ClientError before anything is changed
         /\ ret = "Err"
         /\ trace' = initialize_asked(response)
         /\ UNCHANGED <<state, commands, command_ids, aggregate_key>>
    ELSE /\ ret = "Ok"
         /\ IF IsSome(response.key)
            THEN initialize_has_key(response) /\ UNCHANGED <<commands, command_ids>>
            ELSE LET coordinator_id == calculate_coordinator(public_keys)[1]
                 IN /\ IF /\ coordinator_id = signer_id
                          /\ (commands = <<>> \/ Head(commands) # Dkg)
                       THEN /\ commands' = PushFront(commands, Dkg)
                            /\ command_ids' = PushFront(command_ids, InitId)
                       ELSE UNCHANGED <<commands, command_ids>>
                    /\ trace' = initialize_asked(response)
                    /\ UNCHANGED aggregate_key
         /\ state' = "Idle"

\* retry_with_exponential_backoff(request_fn).expect(..): a transient error is
\* retried until the budget is spent, and then the expect panics
retry_with_exponential_backoff(ret) ==
    IF ret = "Ok"
    THEN pc' = "event" /\ UNCHANGED retries
    ELSE IF retries < MaxRetries
         THEN pc' = "init" /\ retries' = retries + 1
         ELSE pc' = "panicked" /\ UNCHANGED retries

\* mutant of run_one_pass_init: a failed initialization is logged and the pass goes on
run_one_pass_init_ignore_error(response, ret) ==
    /\ pc = "init"
    /\ initialize(response, ret)
    /\ pc' = "event"
    /\ UNCHANGED retries
    /\ UNCHANGED <<signer_id, command, command_id, started, next_id, in_flight>>
    /\ UNCHANGED returned
    /\ UNCHANGED <<config, coordinator_config, selected, analysis>>

\* run_one_pass, "if self.state == State::Uninitialized"
run_one_pass_init(response, ret) ==
    /\ pc = "init"
    /\ initialize(response, ret)
    /\ retry_with_exponential_backoff(ret)
    /\ UNCHANGED <<signer_id, command, command_id, started, next_id, in_flight>>
    /\ UNCHANGED returned
    /\ UNCHANGED <<config, coordinator_config, selected, analysis>>

\* mutant of miner_chunks: the Sign command of a block is pushed to the front
RECURSIVE miner_chunks_push_front(_, _, _)
miner_chunks_push_front(chunks, valid, acc) ==
    IF chunks = <<>> THEN acc
    ELSE
    LET chunk == Head(chunks)
        stacker_db_message == read_next(chunk)
        coordinator_id == calculate_coordinator(public_keys)[1]
        after ==
            IF ~IsSome(stacker_db_message) THEN acc
            ELSE IF Unwrap(stacker_db_message).tag = "packet" THEN acc
            ELSE
            LET block == Unwrap(stacker_db_message).block IN
            IF coordinator_id # signer_id THEN acc
            ELSE
            LET asked == [acc EXCEPT !.trace =
                            Append(@, [call |-> "is_valid_nakamoto_block",
                                       block |-> block, valid |-> valid[block]])]
            IN  IF valid[block] # "valid" THEN asked
                ELSE [asked EXCEPT
                        !.commands = PushFront(@, Sign(serialize_to_vec(block), FALSE, None)),
                        !.command_ids = PushFront(@, asked.next_id),
                        !.next_id = @ + 1]
    IN miner_chunks_push_front(Tail(chunks), valid, after)

\* mutant of miner_chunks: a block is acted on whether or not this node is the coordinator
RECURSIVE miner_chunks_any_node(_, _, _)
miner_chunks_any_node(chunks, valid, acc) ==
    IF chunks = <<>> THEN acc
    ELSE
    LET chunk == Head(chunks)
        stacker_db_message == read_next(chunk)
        after ==
            IF ~IsSome(stacker_db_message) THEN acc
            ELSE IF Unwrap(stacker_db_message).tag = "packet" THEN acc
            ELSE
            LET block == Unwrap(stacker_db_message).block
                asked == [acc EXCEPT !.trace =
                            Append(@, [call |-> "is_valid_nakamoto_block",
                                       block |-> block, valid |-> valid[block]])]
            IN  IF valid[block] # "valid" THEN asked
                ELSE [asked EXCEPT
                        !.commands = Append(@, Sign(serialize_to_vec(block), FALSE, None)),
                        !.command_ids = Append(@, asked.next_id),
                        !.next_id = @ + 1]
    IN miner_chunks_any_node(Tail(chunks), valid, after)

\* mutant of miner_chunks: a failed validation query counts as true (unwrap_or(true))
RECURSIVE miner_chunks_error_as_valid(_, _, _)
miner_chunks_error_as_valid(chunks, valid, acc) ==
    IF chunks = <<>> THEN acc
    ELSE
    LET chunk == Head(chunks)
        stacker_db_message == read_next(chunk)
        coordinator_id == calculate_coordinator(public_keys)[1]
        after ==
            IF ~IsSome(stacker_db_message) THEN acc
            ELSE IF Unwrap(stacker_db_message).tag = "packet" THEN acc
            ELSE
            LET block == Unwrap(stacker_db_message).block IN
            IF coordinator_id # signer_id THEN acc
            ELSE
            LET asked == [acc EXCEPT !.trace =
                            Append(@, [call |-> "is_valid_nakamoto_block",
                                       block |-> block, valid |-> valid[block]])]
            IN  IF valid[block] = "invalid" THEN asked
                ELSE [asked EXCEPT
                        !.commands = Append(@, Sign(serialize_to_vec(block), FALSE, None)),
                        !.command_ids = Append(@, asked.next_id),
                        !.next_id = @ + 1]
    IN miner_chunks_error_as_valid(Tail(chunks), valid, after)

\* process_event_miner, one chunk after the other; `valid` is what the stacks node
\* answers for each block; acc is the queue (with its history) and the trace
RECURSIVE miner_chunks(_, _, _)
miner_chunks(chunks, valid, acc) ==
    IF chunks = <<>> THEN acc
    ELSE
    LET chunk == Head(chunks)
        stacker_db_message == read_next(chunk)
        coordinator_id == calculate_coordinator(public_keys)[1]
        after ==
            IF ~IsSome(stacker_db_message) THEN acc   \* unrecognized: warn, return
            ELSE IF Unwrap(stacker_db_message).tag = "packet" THEN acc   \* warn
            ELSE
            LET block == Unwrap(stacker_db_message).block IN
            IF coordinator_id # signer_id THEN acc
            ELSE
            LET asked == [acc EXCEPT !.trace =
                            Append(@, [call |-> "is_valid_nakamoto_block",
                                       block |-> block, valid |-> valid[block]])]
            IN  IF valid[block] # "valid" THEN asked   \* an error counts as false
                ELSE [asked EXCEPT
                        !.commands = Append(@, Sign(serialize_to_vec(block), FALSE, None)),
                        !.command_ids = Append(@, asked.next_id),
                        !.next_id = @ + 1]
    IN miner_chunks(Tail(chunks), valid, after)

process_event_miner(event, valid) ==
    LET done == miner_chunks(event.modified_slots, valid,
                             [commands |-> commands, command_ids |-> command_ids,
                              next_id |-> next_id, trace |-> <<>>])
    IN /\ commands' = done.commands
       /\ command_ids' = done.command_ids
       /\ next_id' = done.next_id
       /\ trace' = done.trace

\* mutant of inbound_messages: the first chunk that does not decode ends the batch
inbound_messages_stop_at_junk(event) ==
    LET coordinator_public_key == calculate_coordinator(public_keys)[2]
        slots == event.modified_slots
        undecodable == {i \in 1..Len(slots) : ~IsSome(read_next(slots[i]))}
        read == IF undecodable = {} THEN slots
                ELSE SubSeq(slots, 1, (CHOOSE i \in undecodable :
                                            \A j \in undecodable : i <= j) - 1)
        keep(chunk) ==
            /\ Unwrap(read_next(chunk)).tag = "packet"
            /\ verify(Unwrap(read_next(chunk)).packet, public_keys, coordinator_public_key)
        kept == SelectSeq(read, keep)
    IN [i \in 1..Len(kept) |-> kept[i].packet]

\* mutant of inbound_messages: packets are kept without being verified
inbound_messages_unverified(event) ==
    LET keep(chunk) ==
            LET stacker_db_message == read_next(chunk)
            IN /\ IsSome(stacker_db_message)
               /\ Unwrap(stacker_db_message).tag = "packet"
        kept == SelectSeq(event.modified_slots, keep)
    IN [i \in 1..Len(kept) |-> kept[i].packet]

\* mutant of inbound_messages: a block of the signers' stacker-db is kept as well
inbound_messages_with_blocks(event) ==
    LET coordinator_public_key == calculate_coordinator(public_keys)[2]
        keep(chunk) ==
            LET stacker_db_message == read_next(chunk)
            IN /\ IsSome(stacker_db_message)
               /\ \/ Unwrap(stacker_db_message).tag = "block"
                  \/ verify(Unwrap(stacker_db_message).packet, public_keys,
                            coordinator_public_key)
        kept == SelectSeq(event.modified_slots, keep)
    IN [i \in 1..Len(kept) |->
            IF kept[i].tag = "packet" THEN kept[i].packet ELSE kept[i].block]

\* process_event_signer: the packets that survive the filter_map
inbound_messages(event) ==
    LET coordinator_public_key == calculate_coordinator(public_keys)[2]
        keep(chunk) ==
            LET stacker_db_message == read_next(chunk)
            IN /\ IsSome(stacker_db_message)
               /\ Unwrap(stacker_db_message).tag = "packet"
               /\ verify(Unwrap(stacker_db_message).packet, public_keys,
                         coordinator_public_key)
        kept == SelectSeq(event.modified_slots, keep)
    IN [i \in 1..Len(kept) |-> kept[i].packet]

\* mutant of outbound_messages: the Coordinator's messages come first
outbound_messages_coordinator_first(signer_answer, coordinator_answer) ==
    (IF coordinator_answer.ok THEN coordinator_answer.messages ELSE <<>>)
        \o (IF signer_answer.ok THEN signer_answer.messages ELSE <<>>)

\* mutant of outbound_messages: an error of either state machine leaves nothing to send
outbound_messages_all_or_nothing(signer_answer, coordinator_answer) ==
    IF signer_answer.ok /\ coordinator_answer.ok
    THEN signer_answer.messages \o coordinator_answer.messages
    ELSE <<>>

\* process_event_signer: the messages sent to the stacker-db, the signer's first
outbound_messages(signer_answer, coordinator_answer) ==
    (IF signer_answer.ok THEN signer_answer.messages ELSE <<>>)
        \o (IF coordinator_answer.ok THEN coordinator_answer.messages ELSE <<>>)

\* mutant of operation_results: the other component of the Coordinator's answer
operation_results_messages(coordinator_answer) ==
    IF coordinator_answer.ok THEN coordinator_answer.messages ELSE <<>>

\* process_event_signer: the value it returns
operation_results(coordinator_answer) ==
    IF coordinator_answer.ok THEN coordinator_answer.results ELSE <<>>

\* mutant of process_event_signer: the sends stop at the first one that fails
process_event_signer_stop_on_failed_send(event, signer_answer, coordinator_answer, acks) ==
    LET inbound == inbound_messages(event)
        outbound == outbound_messages(signer_answer, coordinator_answer)
        failed == {i \in 1..Len(outbound) : ~acks[i]}
        tried == IF failed = {} THEN Len(outbound)
                 ELSE CHOOSE i \in failed : \A j \in failed : i <= j
    IN <<[call |-> "signer.process_inbound_messages", packets |-> inbound,
          answer |-> signer_answer],
         [call |-> "coordinator.process_inbound_messages", packets |-> inbound,
          answer |-> coordinator_answer]>>
       \o [i \in 1..tried |->
             [call |-> "send_message_with_retry", msg |-> outbound[i], ack |-> acks[i]]]

\* mutant of process_event_signer: nothing is called when no packet is left
process_event_signer_skip_empty(event, signer_answer, coordinator_answer, acks) ==
    LET inbound == inbound_messages(event)
        outbound == outbound_messages(signer_answer, coordinator_answer)
    IN IF inbound = <<>> THEN <<>>
       ELSE
       <<[call |-> "signer.process_inbound_messages", packets |-> inbound,
          answer |-> signer_answer],
         [call |-> "coordinator.process_inbound_messages", packets |-> inbound,
          answer |-> coordinator_answer]>>
       \o [i \in 1..Len(outbound) |->
             [call |-> "send_message_with_retry", msg |-> outbound[i], ack |-> acks[i]]]

\* process_event_signer: the calls it makes (acks: which sends succeed)
process_event_signer(event, signer_answer, coordinator_answer, acks) ==
    LET inbound == inbound_messages(event)
        outbound == outbound_messages(signer_answer, coordinator_answer)
    IN <<[call |-> "signer.process_inbound_messages", packets |-> inbound,
          answer |-> signer_answer],
         [call |-> "coordinator.process_inbound_messages", packets |-> inbound,
          answer |-> coordinator_answer]>>
       \o [i \in 1..Len(outbound) |->
             [call |-> "send_message_with_retry", msg |-> outbound[i], ack |-> acks[i]]]

MinersContractId == "miners"
SignersContractId == "signers"
\* mutant of run_one_pass_event: an event that is not of the signers' contract is
\* handed to process_event_miner
run_one_pass_event_miner_by_default(event, valid, signer_answer, coordinator_answer, acks, sent) ==
    /\ pc = "event"
    /\ pc' = "drain"
    /\ IF ~IsSome(event)
       THEN /\ trace' = <<>>
            /\ UNCHANGED <<state, commands, command_ids, next_id, in_flight>>
       ELSE IF Unwrap(event).contract_id = SignersContractId
       THEN LET calls == process_event_signer(Unwrap(event), signer_answer,
                                              coordinator_answer, acks)
                results == operation_results(coordinator_answer)
            IN  IF Len(results) > 0
                THEN /\ state' = "Idle"
                     /\ in_flight' = 0
                     /\ trace' = calls \o
                            <<[call |-> "res.send", results |-> results, ok |-> sent]>>
                     /\ UNCHANGED <<commands, command_ids, next_id>>
                ELSE /\ trace' = calls
                     /\ UNCHANGED <<state, in_flight, commands, command_ids, next_id>>
       ELSE /\ process_event_miner(Unwrap(event), valid)
            /\ UNCHANGED <<state, in_flight>>
    /\ UNCHANGED <<signer_id, aggregate_key, retries, command, command_id, started>>
    /\ UNCHANGED returned
    /\ UNCHANGED <<config, coordinator_config, selected, analysis>>

\* mutant of run_one_pass_event: the state moves to Idle only when the operator
\* took the results
run_one_pass_event_idle_if_sent(event, valid, signer_answer, coordinator_answer, acks, sent) ==
    /\ pc = "event"
    /\ pc' = "drain"
    /\ IF ~IsSome(event)
       THEN /\ trace' = <<>>
            /\ UNCHANGED <<state, commands, command_ids, next_id, in_flight>>
       ELSE IF Unwrap(event).contract_id = MinersContractId
       THEN /\ process_event_miner(Unwrap(event), valid)
            /\ UNCHANGED <<state, in_flight>>
       ELSE IF Unwrap(event).contract_id = SignersContractId
       THEN LET calls == process_event_signer(Unwrap(event), signer_answer,
                                              coordinator_answer, acks)
                results == operation_results(coordinator_answer)
            IN  IF Len(results) > 0
                THEN /\ state' = IF sent THEN "Idle" ELSE state
                     /\ in_flight' = IF sent THEN 0 ELSE in_flight
                     /\ trace' = calls \o
                            <<[call |-> "res.send", results |-> results, ok |-> sent]>>
                     /\ UNCHANGED <<commands, command_ids, next_id>>
                ELSE /\ trace' = calls
                     /\ UNCHANGED <<state, in_flight, commands, command_ids, next_id>>
       ELSE /\ trace' = <<>>   \* unknown contract ID: warn
            /\ UNCHANGED <<state, commands, command_ids, next_id, in_flight>>
    /\ UNCHANGED <<signer_id, aggregate_key, retries, command, command_id, started>>
    /\ UNCHANGED returned
    /\ UNCHANGED <<config, coordinator_config, selected, analysis>>

\* mutant of run_one_pass_event: a pass that observed results returns them to
\* its caller
run_one_pass_event_return_results(event, valid, signer_answer, coordinator_answer, acks, sent) ==
    /\ pc = "event"
    /\ pc' = IF IsSome(event) /\ Unwrap(event).contract_id = SignersContractId
                /\ Len(operation_results(coordinator_answer)) > 0
             THEN "wait" ELSE "drain"
    /\ IF ~IsSome(event)
       THEN /\ trace' = <<>>
            /\ UNCHANGED <<state, commands, command_ids, next_id, in_flight>>
       ELSE IF Unwrap(event).contract_id = MinersContractId
       THEN /\ process_event_miner(Unwrap(event), valid)
            /\ UNCHANGED <<state, in_flight>>
       ELSE IF Unwrap(event).contract_id = SignersContractId
       THEN LET calls == process_event_signer(Unwrap(event), signer_answer,
                                              coordinator_answer, acks)
                results == operation_results(coordinator_answer)
            IN  IF Len(results) > 0
                THEN /\ state' = "Idle"
                     /\ in_flight' = 0
                     /\ trace' = calls \o
                            <<[call |-> "res.send", results |-> results, ok |-> sent]>>
                     /\ UNCHANGED <<commands, command_ids, next_id>>
                ELSE /\ trace' = calls
                     /\ UNCHANGED <<state, in_flight, commands, command_ids, next_id>>
       ELSE /\ trace' = <<>>   \* unknown contract ID: warn
            /\ UNCHANGED <<state, commands, command_ids, next_id, in_flight>>
    /\ UNCHANGED <<signer_id, aggregate_key, retries, command, command_id, started>>
    /\ returned' = IF pc' = "wait"
                   THEN Some(Some(operation_results(coordinator_answer)))
                   ELSE returned
    /\ UNCHANGED <<config, coordinator_config, selected, analysis>>

\* mutant of run_one_pass_event: a pass that handled an event returns without
\* processing the queue
run_one_pass_event_skip_drain(event, valid, signer_answer, coordinator_answer, acks, sent) ==
    /\ pc = "event"
    /\ pc' = IF IsSome(event) THEN "wait" ELSE "drain"
    /\ IF ~IsSome(event)
       THEN /\ trace' = <<>>
            /\ UNCHANGED <<state, commands, command_ids, next_id, in_flight>>
       ELSE IF Unwrap(event).contract_id = MinersContractId
       THEN /\ process_event_miner(Unwrap(event), valid)
            /\ UNCHANGED <<state, in_flight>>
       ELSE IF Unwrap(event).contract_id = SignersContractId
       THEN LET calls == process_event_signer(Unwrap(event), signer_answer,
                                              coordinator_answer, acks)
                results == operation_results(coordinator_answer)
            IN  IF Len(results) > 0
                THEN /\ state' = "Idle"
                     /\ in_flight' = 0
                     /\ trace' = calls \o
                            <<[call |-> "res.send", results |-> results, ok |-> sent]>>
                     /\ UNCHANGED <<commands, command_ids, next_id>>
                ELSE /\ trace' = calls
                     /\ UNCHANGED <<state, in_flight, commands, command_ids, next_id>>
       ELSE /\ trace' = <<>>   \* unknown contract ID: warn
            /\ UNCHANGED <<state, commands, command_ids, next_id, in_flight>>
    /\ UNCHANGED <<signer_id, aggregate_key, retries, command, command_id, started>>
    /\ returned' = IF pc' = "wait" THEN Some(None) ELSE returned
    /\ UNCHANGED <<config, coordinator_config, selected, analysis>>

\* run_one_pass, "if let Some(event) = event": the event is handed to the handler
\* of its contract; sent: whether res.send succeeds
run_one_pass_event(event, valid, signer_answer, coordinator_answer, acks, sent) ==
    /\ pc = "event"
    /\ pc' = "drain"
    /\ IF ~IsSome(event)
       THEN /\ trace' = <<>>
            /\ UNCHANGED <<state, commands, command_ids, next_id, in_flight>>
       ELSE IF Unwrap(event).contract_id = MinersContractId
       THEN /\ process_event_miner(Unwrap(event), valid)
            /\ UNCHANGED <<state, in_flight>>
       ELSE IF Unwrap(event).contract_id = SignersContractId
       THEN LET calls == process_event_signer(Unwrap(event), signer_answer,
                                              coordinator_answer, acks)
                results == operation_results(coordinator_answer)
            IN  IF Len(results) > 0
                THEN /\ state' = "Idle"
                     /\ in_flight' = 0
                     /\ trace' = calls \o
                            <<[call |-> "res.send", results |-> results, ok |-> sent]>>
                     /\ UNCHANGED <<commands, command_ids, next_id>>
                ELSE /\ trace' = calls
                     /\ UNCHANGED <<state, in_flight, commands, command_ids, next_id>>
       ELSE /\ trace' = <<>>   \* unknown contract ID: warn
            /\ UNCHANGED <<state, commands, command_ids, next_id, in_flight>>
    /\ UNCHANGED <<signer_id, aggregate_key, retries, command, command_id, started>>
    /\ UNCHANGED returned
    /\ UNCHANGED <<config, coordinator_config, selected, analysis>>

\* mutant of execute_command_call: the merkle root of the command is not passed on
execute_command_call_no_merkle_root(cmd, started_ok) ==
    IF cmd.type = "Dkg"
    THEN [call |-> "start_dkg_round", ok |-> started_ok]
    ELSE [call |-> "start_signing_round", message |-> cmd.message,
          is_taproot |-> cmd.is_taproot, merkle_root |-> None,
          ok |-> started_ok]

\* mutant of execute_command_call: every signing round is started without taproot
execute_command_call_never_taproot(cmd, started_ok) ==
    IF cmd.type = "Dkg"
    THEN [call |-> "start_dkg_round", ok |-> started_ok]
    ELSE [call |-> "start_signing_round", message |-> cmd.message,
          is_taproot |-> FALSE, merkle_root |-> cmd.merkle_root,
          ok |-> started_ok]

\* the parts of execute_command that its mutants share
execute_command_call(cmd, started_ok) ==
    IF cmd.type = "Dkg"
    THEN [call |-> "start_dkg_round", ok |-> started_ok]
    ELSE [call |-> "start_signing_round", message |-> cmd.message,
          is_taproot |-> cmd.is_taproot, merkle_root |-> cmd.merkle_root,
          ok |-> started_ok]
execute_command_sent(cmd, ack) ==
    [call |-> "send_message_with_retry",
     msg |-> IF cmd.type = "Dkg" THEN "DkgBegin" ELSE "NonceRequest", ack |-> ack]

\* mutant of execute_command: the Coordinator is not reset when the start fails
execute_command_no_reset(cmd, started_ok, ack, ret) ==
    IF started_ok
    THEN /\ trace' = trace \o <<execute_command_call(cmd, started_ok),
                                execute_command_sent(cmd, ack)>>
         /\ state' = IF cmd.type = "Dkg" THEN "Dkg" ELSE "Sign"
         /\ in_flight' = in_flight + 1
         /\ started' = Append(started, command_id)
         /\ ret = TRUE
    ELSE /\ trace' = Append(trace, execute_command_call(cmd, started_ok))
         /\ UNCHANGED <<state, in_flight, started>>
         /\ ret = FALSE

\* mutant of execute_command: a signing round that started sets State::Dkg
execute_command_sign_as_dkg(cmd, started_ok, ack, ret) ==
    IF started_ok
    THEN /\ trace' = trace \o <<execute_command_call(cmd, started_ok),
                                execute_command_sent(cmd, ack)>>
         /\ state' = "Dkg"
         /\ in_flight' = in_flight + 1
         /\ started' = Append(started, command_id)
         /\ ret = TRUE
    ELSE /\ trace' = trace \o <<execute_command_call(cmd, started_ok), [call |-> "reset"]>>
         /\ UNCHANGED <<state, in_flight, started>>
         /\ ret = FALSE

\* mutant of execute_command: a start whose relay failed is rolled back
execute_command_rollback_on_failed_relay(cmd, started_ok, ack, ret) ==
    IF started_ok /\ ack
    THEN /\ trace' = trace \o <<execute_command_call(cmd, started_ok),
                                execute_command_sent(cmd, ack)>>
         /\ state' = IF cmd.type = "Dkg" THEN "Dkg" ELSE "Sign"
         /\ in_flight' = in_flight + 1
         /\ started' = Append(started, command_id)
         /\ ret = TRUE
    ELSE IF started_ok
    THEN /\ trace' = trace \o <<execute_command_call(cmd, started_ok),
                                execute_command_sent(cmd, ack), [call |-> "reset"]>>
         /\ UNCHANGED <<state, in_flight, started>>
         /\ ret = FALSE
    ELSE /\ trace' = trace \o <<execute_command_call(cmd, started_ok), [call |-> "reset"]>>
         /\ UNCHANGED <<state, in_flight, started>>
         /\ ret = FALSE

\* execute_command: one attempt to start the round of `cmd`; started_ok is the
\* Coordinator's answer, ack the stacker-db's, ret the value returned
execute_command(cmd, started_ok, ack, ret) ==
    IF cmd.type = "Dkg"
    THEN IF started_ok
         THEN /\ trace' = trace \o <<execute_command_call(cmd, started_ok),
                                     execute_command_sent(cmd, ack)>>
              /\ state' = "Dkg"
              /\ in_flight' = in_flight + 1
              /\ started' = Append(started, command_id)
              /\ ret = TRUE
         ELSE /\ trace' = trace \o <<execute_command_call(cmd, started_ok),
                                     [call |-> "reset"]>>
              /\ UNCHANGED <<state, in_flight, started>>
              /\ ret = FALSE
    ELSE IF started_ok
         THEN /\ trace' = trace \o <<execute_command_call(cmd, started_ok),
                                     execute_command_sent(cmd, ack)>>
              /\ state' = "Sign"
              /\ in_flight' = in_flight + 1
              /\ started' = Append(started, command_id)
              /\ ret = TRUE
         ELSE /\ trace' = trace \o <<execute_command_call(cmd, started_ok),
                                     [call |-> "reset"]>>
              /\ UNCHANGED <<state, in_flight, started>>
              /\ ret = FALSE

\* mutant of process_next_command: the front command is popped in every state
process_next_command_any_state ==
    /\ pc = "drain"
    /\ IF commands # <<>>
       THEN /\ command' = Some(Head(commands))
            /\ command_id' = Head(command_ids)
            /\ commands' = Tail(commands)
            /\ command_ids' = Tail(command_ids)
            /\ pc' = "exec"
       ELSE /\ pc' = "wait"
            /\ UNCHANGED <<command, command_id, commands, command_ids>>
    /\ trace' = <<>>
    /\ UNCHANGED <<state, signer_id, aggregate_key, retries, started, next_id, in_flight>>
    /\ returned' = IF pc' = "wait" THEN Some(None) ELSE returned
    /\ UNCHANGED <<config, coordinator_config, selected, analysis>>

\* mutant of process_next_command: the front command is popped before the match on
\* the state, and is executed only when the state is Idle
process_next_command_pop_first ==
    /\ pc = "drain"
    /\ IF commands # <<>>
       THEN /\ commands' = Tail(commands)
            /\ command_ids' = Tail(command_ids)
            /\ IF state = "Idle"
               THEN /\ command' = Some(Head(commands))
                    /\ command_id' = Head(command_ids)
                    /\ pc' = "exec"
               ELSE /\ pc' = "wait"
                    /\ UNCHANGED <<command, command_id>>
       ELSE /\ pc' = "wait"
            /\ UNCHANGED <<command, command_id, commands, command_ids>>
    /\ trace' = <<>>
    /\ UNCHANGED <<state, signer_id, aggregate_key, retries, started, next_id, in_flight>>
    /\ returned' = IF pc' = "wait" THEN Some(None) ELSE returned
    /\ UNCHANGED <<config, coordinator_config, selected, analysis>>

\* mutant of process_next_command: the front command is executed and left in the queue
process_next_command_peek ==
    /\ pc = "drain"
    /\ IF state = "Idle" /\ commands # <<>>
       THEN /\ command' = Some(Head(commands))
            /\ command_id' = Head(command_ids)
            /\ UNCHANGED <<commands, command_ids>>
            /\ pc' = "exec"
       ELSE /\ pc' = "wait"
            /\ UNCHANGED <<command, command_id, commands, command_ids>>
    /\ trace' = <<>>
    /\ UNCHANGED <<state, signer_id, aggregate_key, retries, started, next_id, in_flight>>
    /\ returned' = IF pc' = "wait" THEN Some(None) ELSE returned
    /\ UNCHANGED <<config, coordinator_config, selected, analysis>>

\* process_next_command: the match on the state, and the pop of the front command
process_next_command ==
    /\ pc = "drain"
    /\ IF state = "Idle" /\ commands # <<>>
       THEN /\ command' = Some(Head(commands))
            /\ command_id' = Head(command_ids)
            /\ commands' = Tail(commands)
            /\ command_ids' = Tail(command_ids)
            /\ pc' = "exec"
       ELSE \* Uninitialized, Dkg, Sign, or nothing to process
            /\ pc' = "wait"
            /\ UNCHANGED <<command, command_id, commands, command_ids>>
    /\ trace' = <<>>
    /\ UNCHANGED <<state, signer_id, aggregate_key, retries, started, next_id, in_flight>>
    /\ returned' = IF pc' = "wait" THEN Some(None) ELSE returned
    /\ UNCHANGED <<config, coordinator_config, selected, analysis>>

\* mutant of process_next_command_retry: "if" for "while", one attempt and no more
process_next_command_retry_once(started_ok, ack, ret) ==
    /\ pc = "exec"
    /\ execute_command(Unwrap(command), started_ok, ack, ret)
    /\ pc' = "wait"
    /\ UNCHANGED <<commands, command_ids, command, command_id, signer_id, aggregate_key,
                   retries, next_id>>
    /\ returned' = IF pc' = "wait" THEN Some(None) ELSE returned
    /\ UNCHANGED <<config, coordinator_config, selected, analysis>>

\* process_next_command: "while !self.execute_command(&command)", one iteration
process_next_command_retry(started_ok, ack, ret) ==
    /\ pc = "exec"
    /\ execute_command(Unwrap(command), started_ok, ack, ret)
    /\ pc' = IF ret THEN "wait" ELSE "exec"
    /\ UNCHANGED <<commands, command_ids, command, command_id, signer_id, aggregate_key,
                   retries, next_id>>
    /\ returned' = IF pc' = "wait" THEN Some(None) ELSE returned
    /\ UNCHANGED <<config, coordinator_config, selected, analysis>>

\* ------------------------------------------------------------ specification
FailedStarts(tr) ==
    Len(SelectSeq(tr, LAMBDA e : e.call \in {"start_dkg_round", "start_signing_round"}
                                  /\ ~e.ok))
NoAnswer == [ok |-> FALSE, messages |-> <<>>, results |-> <<>>]
NoBlocks == [b \in Blocks |-> "error"]
Junk == [tag |-> "junk"]
PacketChunk(n) == [tag |-> "packet", packet |-> CHOOSE p \in Packets : p.msg = n]
BlockChunk(n) == [tag |-> "block", block |-> [header |-> n]]

\* the inputs of Spec: the operator's commands, the events of each contract, and
\* the answers of the Signer and the Coordinator to a signer event
SpecCommands == {None, Some(Dkg), Some(Sign(<<1>>, FALSE, None)),
                 Some(Sign(<<1>>, TRUE, Some(32)))}
SpecMinerEvents ==
    {[contract_id |-> MinersContractId, modified_slots |-> slots] :
        slots \in SeqsUpTo({Junk, BlockChunk(1), BlockChunk(2)}, MaxChunks)
                    \cup {<<PacketChunk(1)>>, <<PacketChunk(1), BlockChunk(1)>>}}
SpecSignerEvents ==
    {[contract_id |-> SignersContractId, modified_slots |-> slots] :
        slots \in {<<>>, <<PacketChunk(1)>>, <<PacketChunk(3), PacketChunk(1)>>}}
SpecUnknownEvents ==
    {[contract_id |-> "other", modified_slots |-> slots] :
        slots \in SeqsUpTo({PacketChunk(1), BlockChunk(1)}, 1)}
SpecSignerAnswers ==
    {[ok |-> FALSE, messages |-> <<>>], [ok |-> TRUE, messages |-> <<"s1">>]}
SpecCoordinatorAnswers ==
    {[ok |-> FALSE, messages |-> <<>>, results |-> <<>>],
     [ok |-> TRUE, messages |-> <<"c1">>, results |-> <<>>]} \cup
    {[ok |-> TRUE, messages |-> <<>>, results |-> <<o>>] : o \in {"Dkg", "Sign"}}
SpecValid ==
    {[b \in Blocks |-> a] : a \in Answers}
        \cup {[b \in Blocks |-> IF b.header = 1 THEN "valid" ELSE "invalid"]}

PassCmd ==
    \E cmd \in SpecCommands :
        /\ IsSome(cmd) => next_id <= MaxCommands
        /\ run_one_pass_cmd(cmd)
        /\ UNCHANGED <<dispatched, round>>
PassInit ==
    \E response \in NodeResponses, ret \in {"Ok", "Err"} :
        run_one_pass_init(response, ret) /\ UNCHANGED <<dispatched, round>>
PassNoEvent ==
    /\ run_one_pass_event(None, NoBlocks, NoAnswer, NoAnswer, <<>>, FALSE)
    /\ UNCHANGED <<dispatched, round>>
PassMinerEvent ==
    \E event \in SpecMinerEvents, valid \in SpecValid :
        /\ run_one_pass_event(Some(event), valid, NoAnswer, NoAnswer, <<>>, FALSE)
        /\ next_id' <= MaxCommands + 1
        /\ UNCHANGED <<dispatched, round>>
PassSignerEvent ==
    \E event \in SpecSignerEvents, signer_answer \in SpecSignerAnswers,
       coordinator_answer \in SpecCoordinatorAnswers, delivered \in BOOLEAN :
        /\ run_one_pass_event(Some(event), NoBlocks, signer_answer, coordinator_answer,
                [i \in 1..Len(outbound_messages(signer_answer, coordinator_answer))
                    |-> delivered],
                delivered)
        /\ UNCHANGED <<dispatched, round>>
PassUnknownEvent ==
    \E event \in SpecUnknownEvents :
        /\ run_one_pass_event(Some(event), NoBlocks, NoAnswer, NoAnswer, <<>>, FALSE)
        /\ UNCHANGED <<dispatched, round>>
PassDrain == process_next_command /\ dispatched' = None /\ UNCHANGED round
PassExec ==
    \E started_ok \in BOOLEAN, ack \in BOOLEAN, ret \in BOOLEAN :
        /\ ~started_ok => FailedStarts(trace) < MaxFails
        /\ process_next_command_retry(started_ok, ack, ret)
        /\ UNCHANGED <<dispatched, round>>

Next ==
    \/ PassCmd
    \/ PassInit
    \/ PassNoEvent
    \/ PassMinerEvent
    \/ PassSignerEvent
    \/ PassUnknownEvent
    \/ PassDrain
    \/ PassExec

Spec == Init /\ [][Next]_vars

\* the inputs of the specifications with fairness: fewer events and answers
LiveCommands == {None, Some(Dkg), Some(Sign(<<1>>, FALSE, None))}
LiveMinerEvent == [contract_id |-> MinersContractId, modified_slots |-> <<BlockChunk(1)>>]
LiveSignerEvent ==
    [contract_id |-> SignersContractId, modified_slots |-> <<PacketChunk(1)>>]
LiveResults == {<<>>, <<"Dkg">>}

LivePassCmd ==
    \E cmd \in LiveCommands :
        /\ IsSome(cmd) => next_id <= MaxCommands
        /\ run_one_pass_cmd(cmd)
        /\ UNCHANGED <<dispatched, round>>
LivePassMinerEvent ==
    \E answer \in {"valid", "invalid"} :
        /\ run_one_pass_event(Some(LiveMinerEvent), [b \in Blocks |-> answer],
                              NoAnswer, NoAnswer, <<>>, FALSE)
        /\ next_id' <= MaxCommands + 1
        /\ UNCHANGED <<dispatched, round>>
LivePassSignerEvent(results) ==
    /\ run_one_pass_event(Some(LiveSignerEvent), NoBlocks,
                          [ok |-> TRUE, messages |-> <<>>],
                          [ok |-> TRUE, messages |-> <<>>, results |-> results],
                          <<>>, TRUE)
    /\ UNCHANGED <<dispatched, round>>
LivePassSignerEvents == \E results \in LiveResults : LivePassSignerEvent(results)

LiveNext ==
    \/ LivePassCmd
    \/ PassInit
    \/ PassNoEvent
    \/ LivePassMinerEvent
    \/ LivePassSignerEvents
    \/ PassDrain
    \/ PassExec

\* a start of the round that the Coordinator accepts
StartSucceeds ==
    \E ack \in BOOLEAN, ret \in BOOLEAN :
        process_next_command_retry(TRUE, ack, ret) /\ UNCHANGED <<dispatched, round>>
\* a signer event for which the Coordinator reports the results of the round in flight
RoundYieldsOutcome ==
    /\ state \in {"Dkg", "Sign"}
    /\ \E results \in LiveResults \ {<<>>} : LivePassSignerEvent(results)

\* the pass goes on to process_next_command, and a start is accepted in the end
FairStartSpec ==
    Init /\ [][LiveNext]_vars /\ WF_vars(PassDrain) /\ WF_vars(StartSucceeds)
\* passes keep being run and run to their end, a start is accepted in the end, and
\* a round in flight yields its results in the end
LiveSpec ==
    /\ Init /\ [][LiveNext]_vars
    /\ WF_vars(LiveNext) /\ WF_vars(StartSucceeds) /\ SF_vars(RoundYieldsOutcome)

\* the inputs of EventSpec, the specification of the event handlers: the operator
\* has one command to give (the queue is fed by initialize and by the miners' blocks
\* as well), and the batches of both channels hold every kind of chunk
EventCommands == {None, Some(Sign(<<1>>, TRUE, Some(32)))}
EventMinerEvents ==
    {[contract_id |-> MinersContractId, modified_slots |-> slots] :
        slots \in {<<>>, <<BlockChunk(1)>>, <<BlockChunk(1), BlockChunk(2)>>,
                   <<BlockChunk(2), BlockChunk(1)>>, <<BlockChunk(1), BlockChunk(1)>>,
                   <<Junk, BlockChunk(1)>>, <<BlockChunk(1), Junk, BlockChunk(2)>>,
                   <<PacketChunk(1)>>, <<PacketChunk(1), BlockChunk(1)>>,
                   <<BlockChunk(2), PacketChunk(1), BlockChunk(1)>>}}
EventValid ==
    SpecValid \cup {[b \in Blocks |-> IF b.header = 1 THEN "error" ELSE "valid"]}
EventSignerEvents ==
    {[contract_id |-> SignersContractId, modified_slots |-> slots] :
        slots \in {<<>>, <<PacketChunk(1)>>, <<PacketChunk(1), PacketChunk(2)>>,
                   <<PacketChunk(2), PacketChunk(1)>>, <<PacketChunk(3), PacketChunk(1)>>,
                   <<PacketChunk(1), PacketChunk(3), PacketChunk(2)>>,
                   <<Junk, PacketChunk(1)>>, <<PacketChunk(2), Junk, PacketChunk(1)>>,
                   <<BlockChunk(1)>>, <<BlockChunk(1), PacketChunk(2)>>}}
EventUnknownEvents ==
    {[contract_id |-> "other", modified_slots |-> slots] :
        slots \in {<<>>, <<PacketChunk(1)>>, <<BlockChunk(1)>>,
                   <<PacketChunk(1), BlockChunk(1)>>}}
EventCoordinatorAnswers ==
    {[ok |-> FALSE, messages |-> <<>>, results |-> <<>>],
     [ok |-> TRUE, messages |-> <<>>, results |-> <<>>],
     [ok |-> TRUE, messages |-> <<"c1">>, results |-> <<>>],
     [ok |-> TRUE, messages |-> <<"c1">>, results |-> <<"Dkg">>],
     [ok |-> TRUE, messages |-> <<>>, results |-> <<"Sign">>]}

\* what run_one_pass was given for its event step
Given(event, valid, signer_answer, coordinator_answer, acks, sent) ==
    Some([event |-> event, valid |-> valid, signer_answer |-> signer_answer,
          coordinator_answer |-> coordinator_answer, acks |-> acks, sent |-> sent])

EventPassCmd ==
    \E cmd \in EventCommands :
        /\ IsSome(cmd) => next_id <= MaxCommands
        /\ run_one_pass_cmd(cmd)
        /\ dispatched' = Some([cmd |-> cmd])
        /\ UNCHANGED round
EventPassNoEvent ==
    /\ run_one_pass_event(None, NoBlocks, NoAnswer, NoAnswer, <<>>, FALSE)
    /\ dispatched' = Given(None, NoBlocks, NoAnswer, NoAnswer, <<>>, FALSE)
    /\ UNCHANGED round
EventPassMinerEvent ==
    \E event \in EventMinerEvents, valid \in EventValid :
        /\ run_one_pass_event(Some(event), valid, NoAnswer, NoAnswer, <<>>, FALSE)
        /\ next_id' <= MaxCommands + 1
        /\ dispatched' = Given(Some(event), valid, NoAnswer, NoAnswer, <<>>, FALSE)
        /\ UNCHANGED round
EventPassSignerEvent ==
    \E event \in EventSignerEvents, signer_answer \in SignerAnswers,
       coordinator_answer \in EventCoordinatorAnswers :
        \E acks \in [1..Len(outbound_messages(signer_answer, coordinator_answer))
                        -> BOOLEAN],
           sent \in IF coordinator_answer.results = <<>> THEN {FALSE} ELSE BOOLEAN :
            /\ run_one_pass_event(Some(event), NoBlocks, signer_answer,
                                  coordinator_answer, acks, sent)
            /\ dispatched' = Given(Some(event), NoBlocks, signer_answer,
                                   coordinator_answer, acks, sent)
            /\ UNCHANGED round
EventPassUnknownEvent ==
    \E event \in EventUnknownEvents :
        /\ run_one_pass_event(Some(event), NoBlocks, NoAnswer, NoAnswer, <<>>, FALSE)
        /\ dispatched' = Given(Some(event), NoBlocks, NoAnswer, NoAnswer, <<>>, FALSE)
        /\ UNCHANGED round

EventNext ==
    \/ EventPassCmd
    \/ PassInit
    \/ EventPassNoEvent
    \/ EventPassMinerEvent
    \/ EventPassSignerEvent
    \/ EventPassUnknownEvent
    \/ PassDrain
    \/ PassExec

EventSpec == Init /\ [][EventNext]_vars

\* ConfigSpec, the specification of the construction: RunLoop::from and
\* calculate_coordinator applied to every Config of up to MaxKeyIds key ids whose
\* signers are some of the signer ids
Configs ==
    {ConfigOf([id \in ids |-> PublicKeyOf(id)], key_ids) :
        ids \in SUBSET (0..MaxSignerId), key_ids \in 0..MaxKeyIds}
ConfigInit ==
    /\ InitLoop
    /\ config \in Configs
    /\ coordinator_config = None
    /\ analysis = None
loopvars ==
    <<state, commands, signer_id, aggregate_key, pc, retries, command, command_id, trace,
      command_ids, started, next_id, in_flight, dispatched, returned, round>>
ConfigFrom ==
    /\ coordinator_config = None
    /\ coordinator_config' = Some(from(config, signer_id))
    /\ UNCHANGED <<loopvars, config, selected, analysis>>
ConfigCalculateCoordinator ==
    /\ selected = None
    /\ selected' = Some(calculate_coordinator_call(config))
    /\ UNCHANGED <<loopvars, config, coordinator_config, analysis>>
ConfigNext ==
    \/ ConfigFrom
    \/ ConfigCalculateCoordinator
ConfigSpec == ConfigInit /\ [][ConfigNext]_vars

\* ------------------------------------------------------------ run_analysis
\* AnalysisSpec, the specification of clarity's run_analysis: one call, for every
\* epoch and both values of save_contract, in which each pass, the build of the
\* interface and the insertion succeed or fail
Epochs == {"Epoch10", "Epoch20", "Epoch2_05", "Epoch21", "Epoch22", "Epoch23",
           "Epoch24", "Epoch25", "Epoch30"}
\* the arguments of the call and the value of STORE_CONTRACT_SRC_INTERFACE; at:
\* the statement that is next; passes: the passes run so far; error: the error of
\* the closure (Option); interface: contract_interface is set; saved: the analysis
\* is in the database; result: what run_analysis returned (Option)
AnalysisCall(epoch, save_contract, store_interface) ==
    [epoch |-> epoch, save_contract |-> save_contract,
     store_interface |-> store_interface, at |-> "read_only", passes |-> <<>>,
     error |-> None, interface |-> FALSE, saved |-> FALSE, result |-> None]
called == Unwrap(analysis)
\* one statement of the closure: the call goes on to `next`, or the `?` leaves the
\* closure with the error
AnalysisStep(passes, ok, next, error) ==
    /\ analysis' = Some([called EXCEPT !.passes = called.passes \o passes,
                                       !.at = IF ok THEN next ELSE "return",
                                       !.error = IF ok THEN None ELSE Some(error)])
    /\ UNCHANGED <<loopvars, config, coordinator_config, selected>>

\* the passes, in the order of the closure
read_only_pass(ok) ==
    /\ IsSome(analysis) /\ called.at = "read_only"
    /\ AnalysisStep(<<"ReadOnlyChecker">>, ok, "type", "ReadOnlyChecker")
\* mutant of type_checker: epoch 2.05 is checked by the 2.1 checker
type_checker_2_1_from_2_05(epoch) ==
    IF epoch = "Epoch20" THEN Some("TypeChecker2_05")
    ELSE IF epoch = "Epoch10" THEN None
    ELSE Some("TypeChecker2_1")
\* the match on the epoch: the type checker that is run for it (None for Epoch10)
type_checker(epoch) ==
    IF epoch \in {"Epoch20", "Epoch2_05"} THEN Some("TypeChecker2_05")
    ELSE IF epoch \in {"Epoch21", "Epoch22", "Epoch23", "Epoch24", "Epoch25", "Epoch30"}
    THEN Some("TypeChecker2_1")
    ELSE None
type_pass(ok) ==
    /\ IsSome(analysis) /\ called.at = "type"
    /\ LET checker == type_checker(called.epoch)
       IN  IF IsSome(checker)
           THEN AnalysisStep(<<Unwrap(checker)>>, ok, "trait", Unwrap(checker))
           ELSE /\ ~ok
                /\ AnalysisStep(<<>>, FALSE, "trait", "Expects")
trait_pass(ok) ==
    /\ IsSome(analysis) /\ called.at = "trait"
    /\ AnalysisStep(<<"TraitChecker">>, ok, "arithmetic", "TraitChecker")
\* check_contract_cost_eligible returns nothing: it cannot fail
arithmetic_pass ==
    /\ IsSome(analysis) /\ called.at = "arithmetic"
    /\ AnalysisStep(<<"ArithmeticOnlyChecker">>, TRUE, "interface", "none")
\* "if STORE_CONTRACT_SRC_INTERFACE": the interface is built and kept
build_interface(ok) ==
    /\ IsSome(analysis) /\ called.at = "interface"
    /\ IF called.store_interface
       THEN analysis' = Some([called EXCEPT
                                 !.at = IF ok THEN "insert" ELSE "return",
                                 !.interface = ok,
                                 !.error = IF ok THEN None ELSE Some("Interface")])
       ELSE ok /\ analysis' = Some([called EXCEPT !.at = "insert"])
    /\ UNCHANGED <<loopvars, config, coordinator_config, selected>>
\* "if save_contract": the analysis is inserted into the database
insert_contract_analysis(ok) ==
    /\ IsSome(analysis) /\ called.at = "insert"
    /\ IF called.save_contract
       THEN analysis' = Some([called EXCEPT
                                 !.at = "return",
                                 !.saved = ok,
                                 !.error = IF ok THEN None ELSE Some("Expects")])
       ELSE ok /\ analysis' = Some([called EXCEPT !.at = "return"])
    /\ UNCHANGED <<loopvars, config, coordinator_config, selected>>
\* the match on the result of the closure
run_analysis_return ==
    /\ IsSome(analysis) /\ called.at = "return"
    /\ analysis' = Some([called EXCEPT
            !.at = "done",
            !.result = IF IsSome(called.error)
                       THEN Some([ok |-> FALSE, error |-> Unwrap(called.error),
                                  cost_tracker |-> TRUE])
                       ELSE Some([ok |-> TRUE, contract_analysis |-> called.passes])])
    /\ UNCHANGED <<loopvars, config, coordinator_config, selected>>

AnalysisInit ==
    /\ InitLoop
    /\ config = CommitteeConfig
    /\ coordinator_config = None
    /\ analysis \in {Some(AnalysisCall(epoch, save_contract, store_interface)) :
                        epoch \in Epochs, save_contract \in BOOLEAN,
                        store_interface \in BOOLEAN}
AnalysisReadOnly == \E ok \in BOOLEAN : read_only_pass(ok)
AnalysisType == \E ok \in BOOLEAN : type_pass(ok)
AnalysisTrait == \E ok \in BOOLEAN : trait_pass(ok)
AnalysisInterface == \E ok \in BOOLEAN : build_interface(ok)
AnalysisInsert == \E ok \in BOOLEAN : insert_contract_analysis(ok)
AnalysisNext ==
    \/ AnalysisReadOnly
    \/ AnalysisType
    \/ AnalysisTrait
    \/ arithmetic_pass
    \/ AnalysisInterface
    \/ AnalysisInsert
    \/ run_analysis_return
AnalysisSpec == AnalysisInit /\ [][AnalysisNext]_vars

\* ------------------------------------------------------------------ claims
StartCalls == {"start_dkg_round", "start_signing_round"}
Running == {"Dkg", "Sign"}
\* the coordinator reported a non-empty list of OperationResults in this trace
OutcomeObserved(tr) ==
    \E i \in 1..Len(tr) :
        /\ tr[i].call = "coordinator.process_inbound_messages"
        /\ tr[i].answer.ok
        /\ tr[i].answer.results # <<>>
\* the ids, in the order their rounds were started, of the commands appended to the back
StartedFromBack == SelectSeq(started, LAMBDA id : id # InitId)

\* C1: at most one round is in flight per node: a round is started only while the
\* state is Idle, a started round leaves the state Dkg or Sign, and no further start
\* is attempted while a round is in flight.
C1_OneRoundInFlight ==
    /\ in_flight <= 1
    /\ pc = "exec" => state = "Idle" /\ in_flight = 0
    /\ in_flight = 1 <=> state \in Running
    /\ (pc = "wait" /\ trace # <<>>) =>
            /\ Last(trace).call = "send_message_with_retry"
            /\ state \in Running
C1_Witness ==
    /\ pc = "wait" /\ in_flight = 1 /\ state = "Dkg"
    /\ Len(started) = 1 /\ Len(commands) = 2

\* C2: the state leaves Dkg or Sign only in the event step of a pass whose event came
\* from the signers contract and for which the Coordinator returned a non-empty list
\* of results, and it then becomes Idle; every other step leaves a Dkg or Sign state
\* as it is.
C2_RoundEndsOnOutcome ==
    [][(state \in Running /\ state' # state) =>
            /\ pc = "event"
            /\ state' = "Idle"
            /\ OutcomeObserved(trace')]_vars
C2_Witness ==
    /\ pc = "drain" /\ state = "Idle" /\ started # <<>>
    /\ OutcomeObserved(trace)

\* C3: commands appended to the back of the queue have their rounds started in the
\* order they were appended: the k-th round started for such a command is the round
\* of the k-th command appended.
C3_Fifo ==
    /\ \A k \in 1..Len(StartedFromBack) : StartedFromBack[k] = k
    /\ \A i, j \in 1..Len(command_ids) :
            (i < j /\ command_ids[i] # InitId) => command_ids[i] < command_ids[j]
C3_Witness ==
    /\ Len(StartedFromBack) = 3
    /\ InitId \in Range(started)

\* the step is a call of initialize() that the stacks node answered with `key`
InitializedWith(key) ==
    /\ pc = "init"
    /\ Len(trace') > Len(trace)
    /\ trace'[Len(trace) + 1] =
            [call |-> "get_aggregate_public_key", response |-> [ok |-> TRUE, key |-> key]]
IsCoordinator == signer_id = calculate_coordinator(public_keys)[1]

\* C4: initialization with no aggregate key published: on the coordinator node, if no
\* Dkg is anywhere in the queue one Dkg is inserted at the front, and if a Dkg is
\* queued none is added; a node that is not the coordinator enqueues nothing; the
\* state becomes Idle in every case.
C4_InitWithoutKey ==
    [][InitializedWith(None) =>
            /\ state' = "Idle"
            /\ pc' = "event"
            /\ commands' = IF IsCoordinator /\ Dkg \notin Range(commands)
                           THEN <<Dkg>> \o commands
                           ELSE commands]_vars
C4_Witness ==
    /\ pc = "event" /\ state = "Idle" /\ IsCoordinator
    /\ trace = <<[call |-> "get_aggregate_public_key",
                  response |-> [ok |-> TRUE, key |-> None]]>>
    /\ Len(commands) = 2 /\ commands[1] = Dkg /\ commands[2].type = "Sign"
    /\ command_ids = <<InitId, 1>>

\* C5: initialization with an aggregate key published installs the key in the
\* Coordinator, leaves the queue as it is (on every node) and makes the state Idle.
C5_InitWithKey ==
    [][\A key \in AggregateKeys :
            InitializedWith(Some(key)) =>
                /\ aggregate_key' = Some(key)
                /\ trace' = Append(SubSeq(trace', 1, Len(trace) + 1),
                                   [call |-> "set_aggregate_public_key", key |-> Some(key)])
                /\ commands' = commands
                /\ command_ids' = command_ids
                /\ state' = "Idle"
                /\ pc' = "event"]_vars
C5_Witness ==
    /\ pc = "event" /\ state = "Idle" /\ IsCoordinator
    /\ aggregate_key # None
    /\ Len(commands) = 1 /\ commands[1].type = "Sign"

\* the step is a call of initialize() whose query of the stacks node failed
InitializeFailed ==
    /\ pc = "init"
    /\ Len(trace') > Len(trace)
    /\ trace'[Len(trace) + 1].call = "get_aggregate_public_key"
    /\ ~trace'[Len(trace) + 1].response.ok

\* C6: a failed query of the stacks node during initialization leaves the state
\* Uninitialized and the queue as it is; when the retry budget is spent the pass ends
\* in the panic, with no event dispatched and no command executed in it; the Dkg of
\* initialization is never enqueued more than once.
C6_InitFailure ==
    /\ [][InitializeFailed =>
            /\ state' = "Uninitialized"
            /\ commands' = commands
            /\ command_ids' = command_ids
            /\ aggregate_key' = aggregate_key
            /\ Len(trace') = Len(trace) + 1
            /\ pc' = IF retries < MaxRetries THEN "init" ELSE "panicked"]_vars
    /\ [][pc = "panicked" => UNCHANGED vars]_vars
    /\ [](pc = "panicked" =>
            /\ state = "Uninitialized"
            /\ started = <<>>
            /\ command = None
            /\ \A i \in 1..Len(trace) :
                    trace[i].call = "get_aggregate_public_key" /\ ~trace[i].response.ok)
    /\ [](Len(SelectSeq(command_ids \o started, LAMBDA id : id = InitId)) <= 1)
C6_Witness ==
    /\ pc = "panicked"
    /\ commands = <<Dkg>>
    /\ Len(trace) = MaxRetries + 1

\* the step is an attempt of execute_command that the Coordinator refused
StartFailed ==
    /\ pc = "exec"
    /\ Len(trace') > Len(trace)
    /\ trace'[Len(trace) + 1].call \in StartCalls
    /\ ~trace'[Len(trace) + 1].ok

\* C7: when the Coordinator fails to start a round, execute_command resets the
\* Coordinator, returns false (the command is tried again), sends no message to the
\* stacker-db and leaves the state and the queue as they are.
C7_StartFailure ==
    [][StartFailed =>
            /\ trace' = Append(SubSeq(trace', 1, Len(trace) + 1), [call |-> "reset"])
            /\ pc' = "exec"
            /\ command' = command
            /\ state' = state
            /\ commands' = commands
            /\ started' = started]_vars
C7_Witness ==
    /\ pc = "exec"
    /\ trace = <<[call |-> "start_dkg_round", ok |-> FALSE], [call |-> "reset"]>>
    /\ commands # <<>>

\* the call that starts the round of command c, answered ok
StartCall(c, ok) ==
    IF c.type = "Dkg"
    THEN [call |-> "start_dkg_round", ok |-> ok]
    ELSE [call |-> "start_signing_round", message |-> c.message,
          is_taproot |-> c.is_taproot, merkle_root |-> c.merkle_root, ok |-> ok]

\* C8: when the start of the front command fails k times and then succeeds, the pass
\* made k + 1 attempts for that same command, reset the Coordinator k times, sent one
\* message (that of the attempt that succeeded), the command is out of the queue,
\* and the state is Dkg for a Dkg command and Sign for a Sign command.
C8_RetryDiscipline ==
    (pc = "wait" /\ IsSome(command)) =>
        LET k == FailedStarts(trace)
            c == Unwrap(command)
        IN /\ Len(trace) = 2 * k + 2
           /\ \A i \in 1..k :
                /\ trace[2 * i - 1] = StartCall(c, FALSE)
                /\ trace[2 * i] = [call |-> "reset"]
           /\ trace[2 * k + 1] = StartCall(c, TRUE)
           /\ trace[2 * k + 2].call = "send_message_with_retry"
           /\ command_id \notin Range(command_ids)
           /\ Last(started) = command_id
           /\ state = (IF c.type = "Dkg" THEN "Dkg" ELSE "Sign")
C8_Witness ==
    /\ pc = "wait" /\ IsSome(command) /\ Unwrap(command).type = "Sign"
    /\ FailedStarts(trace) = 2
    /\ state = "Sign"

\* C9: the drain step of a pass ends only by a start that the Coordinator accepts
\* (there is no other way out of the retry loop, so a Coordinator that refuses for
\* ever keeps the pass from returning), and when a start is accepted in the end,
\* a pass that finds the state Idle and the queue non-empty ends with the round started.
C9_DrainTermination ==
    /\ [][(pc = "exec" /\ pc' # "exec") =>
            /\ pc' = "wait"
            /\ state' \in Running
            /\ Len(trace') = Len(trace) + 2
            /\ trace'[Len(trace) + 1] = StartCall(Unwrap(command), TRUE)]_vars
    /\ [][(pc = "drain" /\ state = "Idle" /\ commands # <<>>) => pc' = "exec"]_vars
    /\ (pc = "exec") ~> (pc = "wait" /\ state \in Running)
C9_Witness ==
    /\ pc = "wait" /\ state = "Dkg" /\ command = Some(Dkg)
    /\ FailedStarts(trace) = MaxFails

\* C10: forward progress: in every behaviour in which passes keep being invoked
\* (starts being accepted in the end and rounds in flight yielding their results in
\* the end, which LiveSpec states as fairness), every command that enters the queue
\* has its round started.
C10_ForwardProgress ==
    ([]<>(pc = "wait")) =>
        (\A id \in 0..MaxCommands :
            (id \in Range(command_ids)) ~> (id \in Range(started)))
C10_Witness ==
    /\ Len(started) = MaxCommands + 1
    /\ commands = <<>>

\* what the event step of the pass was given (EventSpec records it)
given == Unwrap(dispatched)
\* the step is the event step of a pass
EventStep == pc = "event" /\ IsSome(dispatched')
\* the step is the event step of a pass given an event of that contract
EventStepOf(contract_id) ==
    /\ EventStep
    /\ IsSome(given'.event)
    /\ Unwrap(given'.event).contract_id = contract_id
UnknownEventStep ==
    /\ EventStep
    /\ IsSome(given'.event)
    /\ Unwrap(given'.event).contract_id \notin {MinersContractId, SignersContractId}

\* C11: an event of a contract that is neither the miners' nor the signers' is
\* dropped: its step makes no call, sends nothing to the operator, leaves the state
\* and the queue as they are, and is the very step that the pass takes when it is
\* given no event.
C11_UnknownChannelDropped ==
    [][UnknownEventStep =>
            /\ trace' = <<>>
            /\ pc' = "drain"
            /\ UNCHANGED <<state, commands, command_ids, next_id, in_flight, signer_id,
                           aggregate_key, retries, command, command_id, started>>
            /\ run_one_pass_event(None, NoBlocks, NoAnswer, NoAnswer, <<>>, FALSE)]_vars
C11_Witness ==
    /\ pc = "drain" /\ IsSome(dispatched) /\ IsCoordinator
    /\ given.event = Some([contract_id |-> "other",
                           modified_slots |-> <<PacketChunk(1), BlockChunk(1)>>])
    /\ state = "Dkg" /\ commands # <<>>
    /\ trace = <<>>

\* the blocks of the batch that the stacks node reported valid, in chunk order
ValidBlocks(slots, valid) ==
    LET kept == SelectSeq(slots, LAMBDA c : c.tag = "block" /\ valid[c.block] = "valid")
    IN [i \in 1..Len(kept) |-> kept[i].block]
\* the Sign command that a block proposal asks for
BlockSign(block) ==
    [type |-> "Sign", message |-> serialize_to_vec(block), is_taproot |-> FALSE,
     merkle_root |-> None]
\* how many times x occurs in the sequence s
Occurrences(s, x) == Cardinality({i \in 1..Len(s) : s[i] = x})

C13_NonCoordinatorIgnoresBlocks ==
    [][(EventStepOf(MinersContractId) /\ ~IsCoordinator) =>
            /\ commands' = commands
            /\ command_ids' = command_ids
            /\ next_id' = next_id
            /\ trace' = <<>>
            /\ state' = state]_vars
C13_Witness ==
    /\ pc = "drain" /\ IsSome(dispatched) /\ ~IsCoordinator
    /\ given.event = Some([contract_id |-> MinersContractId,
                           modified_slots |-> <<BlockChunk(1), BlockChunk(2)>>])
    /\ given.valid = [b \in Blocks |-> "valid"]
    /\ commands = <<Sign(<<1>>, TRUE, Some(32))>>

\* C14: a block proposal that the stacks node reports invalid, or whose validation
\* query fails, enqueues no Sign command: the queue holds as many commands for that
\* block after the step as before, and a batch none of whose blocks is reported valid
\* leaves the queue as it is.
C14_InvalidBlockNotEnqueued ==
    [][EventStepOf(MinersContractId) =>
            LET slots == Unwrap(given'.event).modified_slots
                valid == given'.valid
            IN /\ \A b \in Blocks :
                    valid[b] # "valid" =>
                        Occurrences(commands', BlockSign(b)) =
                            Occurrences(commands, BlockSign(b))
               /\ ValidBlocks(slots, valid) = <<>> =>
                    commands' = commands /\ command_ids' = command_ids
               /\ Len(commands') = Len(commands) +
                    (IF IsCoordinator THEN Len(ValidBlocks(slots, valid)) ELSE 0)]_vars
C14_Witness ==
    /\ pc = "drain" /\ IsSome(dispatched) /\ IsCoordinator
    /\ given.event = Some([contract_id |-> MinersContractId,
                           modified_slots |-> <<BlockChunk(1), Junk, BlockChunk(2)>>])
    /\ given.valid = [b \in Blocks |-> IF b.header = 1 THEN "error" ELSE "valid"]
    /\ Len(trace) = 2 /\ trace[1].valid = "error" /\ trace[2].valid = "valid"
    /\ commands = <<BlockSign([header |-> 2])>>

\* the batch without the chunks that do not decode
Decodable(event) ==
    [event EXCEPT !.modified_slots = SelectSeq(@, LAMBDA c : IsSome(read_next(c)))]
\* the miners' batch without the chunks that do not decode and without the blocks
\* that the stacks node did not report valid
WellFormed(event, valid) ==
    [event EXCEPT !.modified_slots =
        SelectSeq(@, LAMBDA c : /\ IsSome(read_next(c))
                                /\ c.tag = "block" => valid[c.block] = "valid")]
\* the batch without the chunks of that kind
WithoutTag(event, tag) ==
    [event EXCEPT !.modified_slots = SelectSeq(@, LAMBDA c : c.tag # tag)]

\* C15: chunks that do not decode never abort a batch: on both channels the event
\* step runs to its end (the pass goes on to process_next_command), and it is the
\* very step taken for the same batch without those chunks: same state, queue and
\* calls; on the miners' channel the state and the queue are also those left by the
\* batch without the blocks that were not reported valid, and nothing is relayed.
C15_MalformedChunksContained ==
    [][(EventStep /\ IsSome(given'.event)) =>
            LET event == Unwrap(given'.event)
                valid == given'.valid
            IN /\ pc' = "drain"
               /\ run_one_pass_event(Some(Decodable(event)), valid, given'.signer_answer,
                                     given'.coordinator_answer, given'.acks, given'.sent)
               /\ event.contract_id = MinersContractId =>
                    LET done == miner_chunks(WellFormed(event, valid).modified_slots, valid,
                                    [commands |-> commands, command_ids |-> command_ids,
                                     next_id |-> next_id, trace |-> <<>>])
                    IN /\ commands' = done.commands
                       /\ command_ids' = done.command_ids
                       /\ state' = state
                       /\ \A i \in 1..Len(trace') :
                            trace'[i].call = "is_valid_nakamoto_block"]_vars
C15_Witness ==
    /\ pc = "drain" /\ IsSome(dispatched)
    /\ given.event = Some([contract_id |-> SignersContractId,
                           modified_slots |-> <<PacketChunk(2), Junk, PacketChunk(1)>>])
    /\ trace[1].packets = <<PacketChunk(2).packet, PacketChunk(1).packet>>
    /\ Len(trace) = 5 /\ trace[5].call = "res.send"

\* the packets of the batch that verify against the committee's keys and the
\* coordinator's key, in chunk order
Verified(slots) ==
    LET kept == SelectSeq(slots,
                    LAMBDA c : /\ c.tag = "packet"
                               /\ verify(c.packet, public_keys,
                                         calculate_coordinator(public_keys)[2]))
    IN [i \in 1..Len(kept) |-> kept[i].packet]
CapabilityCalls == {"signer.process_inbound_messages", "coordinator.process_inbound_messages"}

\* C16: the event step of a signers' batch hands to the Signer and to the Coordinator,
\* once each, exactly the packets of the batch that verify, in chunk order; a packet
\* that does not verify reaches neither of them.
C16_VerificationFilter ==
    [][EventStepOf(SignersContractId) =>
            LET slots == Unwrap(given'.event).modified_slots
            IN /\ Len(trace') >= 2
               /\ trace'[1].call = "signer.process_inbound_messages"
               /\ trace'[2].call = "coordinator.process_inbound_messages"
               /\ trace'[1].packets = Verified(slots)
               /\ trace'[2].packets = Verified(slots)
               /\ \A i \in 3..Len(trace') : trace'[i].call \notin CapabilityCalls
               /\ \A i \in 1..2 : \A p \in Range(trace'[i].packets) :
                    verify(p, public_keys, calculate_coordinator(public_keys)[2])]_vars
C16_Witness ==
    /\ pc = "drain" /\ IsSome(dispatched)
    /\ given.event = Some([contract_id |-> SignersContractId,
                           modified_slots |->
                              <<PacketChunk(1), PacketChunk(3), PacketChunk(2)>>])
    /\ trace[1].packets = <<PacketChunk(1).packet, PacketChunk(2).packet>>
    /\ trace[2].packets = <<PacketChunk(1).packet, PacketChunk(2).packet>>

\* C17: an envelope on the wrong channel is dropped.  A packet in a miners' batch
\* reaches neither the Signer nor the Coordinator and changes neither state nor queue:
\* the step is the one taken for the batch without its packets.  A block in a signers'
\* batch is not validated, enqueues nothing and is handed to neither state machine:
\* the step is the one taken for the batch without its blocks.
C17_WrongChannelDropped ==
    [][(EventStep /\ IsSome(given'.event)) =>
            LET event == Unwrap(given'.event)
            IN /\ event.contract_id = MinersContractId =>
                    /\ \A i \in 1..Len(trace') : trace'[i].call = "is_valid_nakamoto_block"
                    /\ state' = state
                    /\ run_one_pass_event(Some(WithoutTag(event, "packet")), given'.valid,
                            given'.signer_answer, given'.coordinator_answer,
                            given'.acks, given'.sent)
               /\ event.contract_id = SignersContractId =>
                    /\ commands' = commands
                    /\ command_ids' = command_ids
                    /\ \A i \in 1..Len(trace') : trace'[i].call # "is_valid_nakamoto_block"
                    /\ \A i \in 1..2 : Range(trace'[i].packets) \subseteq Packets
                    /\ run_one_pass_event(Some(WithoutTag(event, "block")), given'.valid,
                            given'.signer_answer, given'.coordinator_answer,
                            given'.acks, given'.sent)]_vars
C17_Witness ==
    /\ pc = "drain" /\ IsSome(dispatched) /\ IsCoordinator
    /\ given.event = Some([contract_id |-> MinersContractId,
                           modified_slots |->
                              <<BlockChunk(2), PacketChunk(1), BlockChunk(1)>>])
    /\ Len(trace) = 2
    /\ commands = <<BlockSign([header |-> 2]), BlockSign([header |-> 1])>>
    /\ state = "Dkg"

\* the messages of the sends recorded in trace tr, and their acknowledgements
Relayed(tr) ==
    LET sends == SelectSeq(tr, LAMBDA e : e.call = "send_message_with_retry")
    IN [i \in 1..Len(sends) |-> sends[i].msg]
RelayAcks(tr) ==
    LET sends == SelectSeq(tr, LAMBDA e : e.call = "send_message_with_retry")
    IN [i \in 1..Len(sends) |-> sends[i].ack]
\* the messages that an answer of a state machine contributes (none when it failed)
Produced(answer) == IF answer.ok THEN answer.messages ELSE <<>>
\* the OperationResults the Coordinator reported (none when it failed)
Outcomes(answer) == IF answer.ok THEN answer.results ELSE <<>>

\* C18: in the event step of a signers' batch the Signer processes the packets first
\* and the Coordinator second, both are given the same packets, and the sends come
\* after both calls: the Signer's messages in their order, then the Coordinator's.
C18_SignerBeforeCoordinator ==
    [][EventStepOf(SignersContractId) =>
            LET n == Len(Produced(given'.signer_answer))
                        + Len(Produced(given'.coordinator_answer))
            IN /\ Len(trace') >= 2 + n
               /\ trace'[1].call = "signer.process_inbound_messages"
               /\ trace'[2].call = "coordinator.process_inbound_messages"
               /\ trace'[1].packets = trace'[2].packets
               /\ trace'[1].answer = given'.signer_answer
               /\ trace'[2].answer = given'.coordinator_answer
               /\ \A i \in 1..n : trace'[2 + i].call = "send_message_with_retry"
               /\ [i \in 1..n |-> trace'[2 + i].msg] =
                    Produced(given'.signer_answer) \o Produced(given'.coordinator_answer)]_vars
C18_Witness ==
    /\ pc = "drain" /\ IsSome(dispatched)
    /\ given.event = Some([contract_id |-> SignersContractId,
                           modified_slots |-> <<PacketChunk(2), PacketChunk(1)>>])
    /\ Len(trace) = 4
    /\ trace[1].call = "signer.process_inbound_messages"
    /\ trace[2].call = "coordinator.process_inbound_messages"
    /\ trace[1].packets = <<PacketChunk(2).packet, PacketChunk(1).packet>>
    /\ trace[3].call = "send_message_with_retry"
    /\ trace[4].call = "send_message_with_retry"
    /\ Relayed(trace) = <<"s1", "c1">>

\* C19: an error of a state machine is contained.  When the Signer fails the
\* Coordinator is still called, its messages are sent and its results are acted on;
\* when the Coordinator fails the Signer's messages are still sent, no result is
\* returned, the state stays as it is and nothing is sent to the operator.
C19_CapabilityErrorsContained ==
    [][EventStepOf(SignersContractId) =>
            LET signer_answer == given'.signer_answer
                coordinator_answer == given'.coordinator_answer
            IN /\ pc' = "drain"
               /\ ~signer_answer.ok =>
                    /\ trace'[2].call = "coordinator.process_inbound_messages"
                    /\ Relayed(trace') = Produced(coordinator_answer)
                    /\ Outcomes(coordinator_answer) # <<>> =>
                            /\ state' = "Idle"
                            /\ Last(trace') = [call |-> "res.send",
                                               results |-> coordinator_answer.results,
                                               ok |-> given'.sent]
                    /\ Outcomes(coordinator_answer) = <<>> =>
                            state' = state /\ Last(trace').call # "res.send"
               /\ ~coordinator_answer.ok =>
                    /\ Relayed(trace') = Produced(signer_answer)
                    /\ state' = state
                    /\ in_flight' = in_flight
                    /\ \A i \in 1..Len(trace') : trace'[i].call # "res.send"]_vars
C19_Witness ==
    /\ pc = "drain" /\ IsSome(dispatched)
    /\ ~given.signer_answer.ok
    /\ given.coordinator_answer =
            [ok |-> TRUE, messages |-> <<"c1">>, results |-> <<"Dkg">>]
    /\ Relayed(trace) = <<"c1">>
    /\ Last(trace).call = "res.send"
    /\ state = "Idle" /\ Len(started) = 1

\* C20: a send that fails does not stop the sends: a signers' batch that yields n
\* messages makes n sends, one per message and in order, whichever of them fail, and
\* the Coordinator's results are acted on all the same (the state becomes Idle and
\* they are sent to the operator exactly when there are some).
C20_RelayFailuresContained ==
    [][EventStepOf(SignersContractId) =>
            LET outbound == Produced(given'.signer_answer)
                                \o Produced(given'.coordinator_answer)
                results == Outcomes(given'.coordinator_answer)
            IN /\ Relayed(trace') = outbound
               /\ RelayAcks(trace') = given'.acks
               /\ Len(trace') = 2 + Len(outbound) + (IF results # <<>> THEN 1 ELSE 0)
               /\ results # <<>> =>
                    /\ state' = "Idle"
                    /\ Last(trace') = [call |-> "res.send", results |-> results,
                                       ok |-> given'.sent]
               /\ results = <<>> => state' = state]_vars
C20_Witness ==
    /\ pc = "drain" /\ IsSome(dispatched)
    /\ given.acks = <<FALSE, TRUE>>
    /\ Relayed(trace) = <<"s1", "c1">>
    /\ RelayAcks(trace) = <<FALSE, TRUE>>
    /\ Last(trace).call = "res.send"
    /\ state = "Idle" /\ Len(started) = 1


\* ------------------------------------------------------------ outcomes
\* the results handed to the operator in the calls tr
SentToOperator(tr) == SelectSeq(tr, LAMBDA e : e.call = "res.send")

\* C21: a signers' event whose handling yields results moves the state to Idle in
\* the same pass and hands exactly those results to the operator exactly once; when
\* that hand-over fails the pass still goes on to the queue with the state Idle; an
\* event that yields no results hands nothing to the operator and changes no state
C21_OutcomeDelivery ==
    /\ [][EventStepOf(SignersContractId) =>
            LET results == Outcomes(given'.coordinator_answer)
            IN  /\ pc' = "drain"
                /\ results # <<>> =>
                      /\ state' = "Idle"
                      /\ SentToOperator(trace') =
                            <<[call |-> "res.send", results |-> results,
                               ok |-> given'.sent]>>
                      /\ Last(trace').call = "res.send"
                /\ results = <<>> =>
                      /\ SentToOperator(trace') = <<>>
                      /\ UNCHANGED <<state, commands, command_ids, started,
                                     in_flight, aggregate_key>>]_vars
    /\ [][(pc = "drain" /\ SentToOperator(trace) # <<>>) =>
            /\ state = "Idle"
            /\ pc' \in {"wait", "exec"}
            /\ state' = "Idle"]_vars
C21_Witness ==
    /\ pc = "drain"
    /\ state = "Idle"
    /\ IsSome(dispatched) /\ ~given.sent
    /\ Len(SentToOperator(trace)) = 1
    /\ ~Last(trace).ok
    /\ started = <<InitId>>
    /\ in_flight = 0

\* C22: every pass that completes returns None, whatever it was given and whatever
\* the state; the results of a round leave the loop only in a res.send
C22_ReturnsNone ==
    /\ [](IsSome(returned) => returned = Some(None))
    /\ [][(pc # "wait" /\ pc' = "wait") => returned' = Some(None)]_vars
    /\ [][(OutcomeObserved(trace') /\ trace' # trace) =>
            /\ SentToOperator(trace') # <<>>
            /\ pc' = "drain"
            /\ returned' = None]_vars
C22_Witness ==
    /\ pc = "wait"
    /\ returned = Some(None)
    /\ state = "Idle"
    /\ started = <<InitId>>
    /\ in_flight = 0
    /\ commands = <<>>

\* C23: a command handed to a pass is appended to the back of the queue in every
\* state, before initialization and event handling; a command that arrives while a
\* round is in flight stays in the queue and no round is started in that pass
\* unless the pass observed the round's results
C23_CommandsAppended ==
    /\ [][(pc = "wait" /\ IsSome(dispatched')) =>
            /\ IF IsSome(given'.cmd)
               THEN /\ commands' = Append(commands, Unwrap(given'.cmd))
                    /\ command_ids' = Append(command_ids, next_id)
               ELSE UNCHANGED <<commands, command_ids>>
            /\ pc' \in {"init", "event"}
            /\ trace' = <<>>
            /\ UNCHANGED <<state, started, in_flight>>]_vars
    /\ [][(pc = "event" /\ state \in Running /\ ~OutcomeObserved(trace')) =>
            /\ state' = state
            /\ Len(commands') >= Len(commands)
            /\ SubSeq(commands', 1, Len(commands)) = commands
            /\ SubSeq(command_ids', 1, Len(command_ids)) = command_ids]_vars
    /\ [][(pc = "drain" /\ state \in Running) =>
            /\ pc' = "wait"
            /\ UNCHANGED <<state, commands, command_ids, started>>]_vars
    /\ [][started' # started => pc = "exec" /\ state = "Idle"]_vars
C23_Witness ==
    /\ pc = "wait"
    /\ returned = Some(None)
    /\ state = "Dkg"
    /\ started = <<InitId>>
    /\ Len(commands) = 2
    /\ Last(commands) = Sign(<<1>>, TRUE, Some(32))
    /\ command = None


\* ------------------------------------------------------------ configuration
\* C24: calculate_coordinator returns a result for every set of public keys, and
\* the result is the id 0 with the public key registered for signer 0
C24_SelectCoordinatorTotal ==
    IsSome(selected) =>
        /\ ~Unwrap(selected).panic
        /\ Unwrap(selected).value = <<0, config.signers[0]>>

\* C25: a run loop built from a configuration with n >= 1 key ids has
\* threshold = floor(7n/10), dkg_threshold = floor(9n/10), num_keys = n and
\* threshold <= dkg_threshold <= n
C25_ThresholdDerivation ==
    (IsSome(coordinator_config) /\ ~Unwrap(coordinator_config).panic
        /\ config.key_ids >= 1) =>
        LET built == Unwrap(coordinator_config)
            n == config.key_ids
        IN  /\ built.num_keys = n
            /\ 10 * built.threshold <= 7 * n
            /\ 7 * n < 10 * (built.threshold + 1)
            /\ 10 * built.dkg_threshold <= 9 * n
            /\ 9 * n < 10 * (built.dkg_threshold + 1)
            /\ built.threshold <= built.dkg_threshold
            /\ built.dkg_threshold <= n
C25_Witness ==
    /\ IsSome(coordinator_config)
    /\ ~Unwrap(coordinator_config).panic
    /\ config.key_ids = 15
    /\ Unwrap(coordinator_config).threshold = 10
    /\ Unwrap(coordinator_config).dkg_threshold = 13


\* ------------------------------------------------------------ block proposals
\* the block proposals that lack a transaction the signers expect
MissingExpectedTransactions == {[header |-> 2]}
\* a broadcast that rejects `block`
IsRejection(entry, block) ==
    /\ entry.call = "send_message_with_retry"
    /\ entry.msg = [type |-> "BlockResponse", rejected |-> block]

\* C28: a block proposal that is missing expected transactions starts no signing
\* round: no Sign command is queued for it, no signing round over it is started,
\* and the pass that handles the proposal broadcasts a rejection of the block
C28_MissingTransactionsRejected ==
    /\ [](\A i \in 1..Len(trace) :
            (trace[i].call = "start_signing_round" /\ trace[i].ok) =>
                \A block \in MissingExpectedTransactions :
                    trace[i].message # serialize_to_vec(block))
    /\ [][(EventStepOf(MinersContractId) /\ IsCoordinator) =>
            \A i \in 1..Len(Unwrap(given'.event).modified_slots) :
                LET chunk == Unwrap(given'.event).modified_slots[i]
                IN  (chunk.tag = "block" /\ chunk.block \in MissingExpectedTransactions) =>
                        /\ Occurrences(commands', BlockSign(chunk.block))
                              = Occurrences(commands, BlockSign(chunk.block))
                        /\ \E j \in 1..Len(trace') : IsRejection(trace'[j], chunk.block)]_vars

\* ------------------------------------------------------------ the order of a pass
\* the Sign commands of the blocks
BlockSigns(blocks) == [i \in 1..Len(blocks) |-> BlockSign(blocks[i])]

\* C29: the event of a pass is handled in full before the queue is processed: a
\* pass that observed results with a non-empty queue, and a pass on an idle node
\* with an empty queue whose miners' batch queued Sign commands, pops the front
\* command in that pass, and a pass that popped a command ends with its round
\* started, in State::Dkg or State::Sign
C29_EventBeforeQueue ==
    /\ [][pc = "event" => pc' = "drain"]_vars
    /\ [][(pc = "drain" /\ OutcomeObserved(trace) /\ commands # <<>>) =>
            /\ pc' = "exec"
            /\ command' = Some(Head(commands))
            /\ commands' = Tail(commands)]_vars
    /\ [][(/\ pc = "drain" /\ state = "Idle"
           /\ IsSome(dispatched) /\ IsSome(given.event)
           /\ Unwrap(given.event).contract_id = MinersContractId
           /\ commands # <<>>
           /\ commands = BlockSigns(ValidBlocks(Unwrap(given.event).modified_slots,
                                                given.valid))) =>
            /\ pc' = "exec"
            /\ command' = Some(Head(commands))
            /\ commands' = Tail(commands)]_vars
    /\ [][(pc = "exec" /\ pc' = "wait") =>
            /\ state' = (IF Unwrap(command).type = "Dkg" THEN "Dkg" ELSE "Sign")
            /\ Last(started') = command_id
            /\ \E i \in 1..Len(trace') :
                  trace'[i].call \in StartCalls /\ trace'[i].ok]_vars
C29_Witness ==
    /\ pc = "wait"
    /\ returned = Some(None)
    /\ state = "Sign"
    /\ command = Some(BlockSign([header |-> 1]))
    /\ started = <<InitId, 1>>
    /\ commands = <<BlockSign([header |-> 2])>>

\* ------------------------------------------------------------ relay of a start
\* C30: an attempt whose start succeeded moves the state to Dkg or Sign, as the
\* command asks, and ends the pass, whether the relay of the start message was
\* acknowledged or not: the Coordinator is not reset and the command is not queued
\* again
C30_StartSurvivesRelayFailure ==
    [][(pc = "exec" /\ Len(trace') > Len(trace)
          /\ trace'[Len(trace) + 1].call \in StartCalls
          /\ trace'[Len(trace) + 1].ok) =>
            LET cmd == Unwrap(command)
            IN  /\ state' = (IF cmd.type = "Dkg" THEN "Dkg" ELSE "Sign")
                /\ pc' = "wait"
                /\ Len(trace') = Len(trace) + 2
                /\ Last(trace').call = "send_message_with_retry"
                /\ started' = Append(started, command_id)
                /\ in_flight' = in_flight + 1
                /\ UNCHANGED <<commands, command_ids>>]_vars
C30_Witness ==
    /\ pc = "wait"
    /\ returned = Some(None)
    /\ state = "Dkg"
    /\ trace # <<>>
    /\ Last(trace).call = "send_message_with_retry"
    /\ ~Last(trace).ack
    /\ started = <<InitId>>
    /\ commands = <<>>


\* ------------------------------------------------------------ rounds
\* RoundSpec: the run loop together with the rounds of its Coordinator. `round`
\* holds the round the Coordinator has in flight (what the last start it accepted
\* asked for), the commands issued so far, and the outcomes handed to the operator,
\* in their order. The Coordinator reports the outcome of the round it has in
\* flight and of no other: a DKG round yields "Dkg", a signing round "Sign", a
\* taproot signing round "SignTaproot". The operator's receiver is open.
NoRounds == [flight |-> None, issued |-> {}, delivered |-> <<>>]
Rounds == IF IsSome(round) THEN Unwrap(round) ELSE NoRounds
\* the round that a command asks for
CommandRound(id, cmd) ==
    IF cmd.type = "Dkg"
    THEN [id |-> id, kind |-> "Dkg", message |-> <<>>]
    ELSE [id |-> id, kind |-> IF cmd.is_taproot THEN "SignTaproot" ELSE "Sign",
          message |-> cmd.message]
\* the round that the Coordinator begins on a start call
CallRound(id, call) ==
    IF call.call = "start_dkg_round"
    THEN [id |-> id, kind |-> "Dkg", message |-> <<>>]
    ELSE [id |-> id, kind |-> IF call.is_taproot THEN "SignTaproot" ELSE "Sign",
          message |-> call.message]
\* the step records the round in flight after it, the commands that have been in
\* the queue, and the results that the step handed to the operator
RoundRecord(flight) ==
    LET sent == SelectSeq(SentToOperator(trace'), LAMBDA e : e.ok)
        handed == [i \in 1..Len(sent) |->
                      [id |-> Unwrap(Rounds.flight).id, kind |-> sent[i].results[1],
                       message |-> Unwrap(Rounds.flight).message]]
    IN round' = Some([flight |-> flight,
                      issued |-> Rounds.issued \cup
                                 {CommandRound(command_ids'[i], commands'[i]) :
                                      i \in 1..Len(commands')},
                      delivered |-> IF pc = "event" THEN Rounds.delivered \o handed
                                    ELSE Rounds.delivered])

RoundCommands == SpecCommands
RoundMinerEvent == LiveMinerEvent
RoundPassCmd ==
    \E cmd \in RoundCommands :
        /\ IsSome(cmd) => next_id <= MaxCommands
        /\ run_one_pass_cmd(cmd)
        /\ RoundRecord(Rounds.flight)
        /\ UNCHANGED dispatched
RoundPassInit ==
    \E response \in NodeResponses, ret \in {"Ok", "Err"} :
        /\ run_one_pass_init(response, ret)
        /\ RoundRecord(Rounds.flight)
        /\ UNCHANGED dispatched
RoundPassNoEvent ==
    /\ run_one_pass_event(None, NoBlocks, NoAnswer, NoAnswer, <<>>, FALSE)
    /\ RoundRecord(Rounds.flight)
    /\ UNCHANGED dispatched
RoundPassMinerEvent ==
    \E answer \in Answers :
        LET valid == [b \in Blocks |-> answer]
        IN  /\ run_one_pass_event(Some(RoundMinerEvent), valid, NoAnswer, NoAnswer,
                                  <<>>, FALSE)
            /\ next_id' <= MaxCommands + 1
            /\ RoundRecord(Rounds.flight)
            /\ dispatched' = Given(Some(RoundMinerEvent), valid, NoAnswer, NoAnswer,
                                   <<>>, FALSE)
\* the results the Coordinator can report: none, or the outcome of its round
RoundResults ==
    {<<>>} \cup (IF IsSome(Rounds.flight) THEN {<<Unwrap(Rounds.flight).kind>>} ELSE {})
RoundPassSignerEvent(results) ==
    /\ results \in RoundResults
    /\ run_one_pass_event(Some(LiveSignerEvent), NoBlocks,
                          [ok |-> TRUE, messages |-> <<>>],
                          [ok |-> TRUE, messages |-> <<>>, results |-> results],
                          <<>>, TRUE)
    /\ RoundRecord(IF results = <<>> THEN Rounds.flight ELSE None)
    /\ UNCHANGED dispatched
RoundPassSignerEvents ==
    \E results \in {<<>>} \cup {<<o>> : o \in OperationResults} :
        RoundPassSignerEvent(results)
RoundPassDrain ==
    /\ process_next_command
    /\ RoundRecord(Rounds.flight)
    /\ dispatched' = None
RoundPassExecWith(started_ok) ==
    \E ack \in BOOLEAN, ret \in BOOLEAN :
        /\ process_next_command_retry(started_ok, ack, ret)
        /\ RoundRecord(IF started_ok
                       THEN Some(CallRound(command_id, trace'[Len(trace) + 1]))
                       ELSE None)
        /\ UNCHANGED dispatched
RoundPassExec ==
    \E started_ok \in BOOLEAN :
        /\ ~started_ok => FailedStarts(trace) < MaxFails
        /\ RoundPassExecWith(started_ok)

RoundNext ==
    \/ RoundPassCmd
    \/ RoundPassInit
    \/ RoundPassNoEvent
    \/ RoundPassMinerEvent
    \/ RoundPassSignerEvents
    \/ RoundPassDrain
    \/ RoundPassExec

\* a start of the round that the Coordinator accepts
RoundStartSucceeds == RoundPassExecWith(TRUE)
\* a signer event for which the Coordinator reports the outcome of its round
CoordinatorYieldsOutcome ==
    /\ IsSome(Rounds.flight)
    /\ RoundPassSignerEvent(<<Unwrap(Rounds.flight).kind>>)

\* passes keep being run and run to their end, a start is accepted in the end, and
\* the Coordinator's round yields its outcome in the end
RoundSpec ==
    /\ Init /\ [][RoundNext]_vars
    /\ WF_vars(RoundNext) /\ WF_vars(RoundStartSucceeds)
    /\ SF_vars(CoordinatorYieldsOutcome)

\* the rounds issued, begun and reported so far
issued == Rounds.issued
delivered == Rounds.delivered
\* the ids, in their order, of the rounds whose outcome the operator was handed
DeliveredIds == [i \in 1..Len(delivered) |-> delivered[i].id]
RoundKinds == {"Dkg", "Sign", "SignTaproot"}
IssuedAs(id, kind) == \E r \in issued : r.id = id /\ r.kind = kind
DeliveredAs(id, kind) ==
    \E i \in 1..Len(delivered) : delivered[i].id = id /\ delivered[i].kind = kind

NoRepeats(q) == \A i, j \in 1..Len(q) : q[i] = q[j] => i = j
\* the ids of the commands that have entered the queue: the Dkg of initialize and
\* the commands that were pushed to the back
Enqueued == {InitId} \cup 1..(next_id - 1)

\* C31: a command leaves the queue only as the front command, at the step that
\* begins its execution; it is then neither in the queue nor among the started
\* rounds until its start succeeds; no id is queued twice or started twice, a
\* started command is not in the queue, and the started commands are commands that
\* were enqueued, so that the successful starts never outnumber them
C31_ConsumedOnce ==
    /\ [](/\ NoRepeats(command_ids) /\ NoRepeats(started)
          /\ Range(started) \cap Range(command_ids) = {}
          /\ Range(started) \cup Range(command_ids) \subseteq Enqueued
          /\ Len(started) <= Cardinality(Enqueued)
          /\ pc = "exec" => /\ command_id \in Enqueued
                            /\ command_id \notin Range(command_ids) \cup Range(started))
    /\ [][Len(commands') < Len(commands) =>
            /\ pc = "drain" /\ pc' = "exec"
            /\ command' = Some(Head(commands))
            /\ command_id' = Head(command_ids)
            /\ commands' = Tail(commands)
            /\ command_ids' = Tail(command_ids)]_vars
    /\ [][started' # started =>
            /\ pc = "exec" /\ pc' = "wait"
            /\ started' = Append(started, command_id)
            /\ Len(SelectSeq(trace', LAMBDA e : e.call \in StartCalls /\ e.ok)) = 1]_vars
C31_Witness ==
    /\ pc = "wait"
    /\ started = <<InitId, 1, 2, 3>>
    /\ commands = <<>>
    /\ next_id = MaxCommands + 1


\* ------------------------------------------------------------ outcome kinds
\* the results that end a round of the state
OutcomesOf(st) ==
    IF st = "Dkg" THEN {"Dkg", "DkgError"} ELSE {"Sign", "SignTaproot", "SignError"}
\* the results that the Coordinator reported in the calls tr
Reported(tr) ==
    LET calls == SelectSeq(tr, LAMBDA e : e.call = "coordinator.process_inbound_messages")
    IN  IF calls = <<>> THEN <<>> ELSE Outcomes(calls[1].answer)

\* C32: a round in flight ends only on results of its own kind: the state goes
\* from Dkg to Idle only on a batch of DKG results, from Sign to Idle only on a
\* batch of signing results, and a batch of the other kind leaves the state as it is
C32_OutcomeOfCurrentRound ==
    /\ [][(state \in Running /\ state' = "Idle") =>
            /\ Reported(trace') # <<>>
            /\ Range(Reported(trace')) \subseteq OutcomesOf(state)]_vars
    /\ [][(pc = "event" /\ state \in Running /\ Reported(trace') # <<>>
             /\ Range(Reported(trace')) \cap OutcomesOf(state) = {}) =>
            state' = state]_vars


\* ------------------------------------------------------------ starts
\* the calls that the step added to the trace
NewCalls == SubSeq(trace', Len(trace) + 1, Len(trace'))
\* the state that the round of a command is run in
StateOf(cmd) == IF cmd.type = "Dkg" THEN "Dkg" ELSE "Sign"

\* C33: an attempt to execute a command makes one start call, the one of the
\* command's kind (start_dkg_round for Dkg, start_signing_round with the command's
\* message, taproot flag and merkle root for Sign); when it succeeds the state is
\* the one of that kind; and the state leaves Idle only in such a successful attempt
C33_StartMatchesCommand ==
    /\ [][pc = "exec" =>
            LET cmd == Unwrap(command)
                starts == SelectSeq(NewCalls, LAMBDA e : e.call \in StartCalls)
            IN  /\ Len(starts) = 1
                /\ starts[1] = StartCall(cmd, starts[1].ok)
                /\ starts[1] = NewCalls[1]
                /\ starts[1].ok => state' = StateOf(cmd) /\ pc' = "wait"
                /\ ~starts[1].ok => state' = "Idle" /\ pc' = "exec"]_vars
    /\ [][(state = "Idle" /\ state' # "Idle") =>
            /\ pc = "exec"
            /\ NewCalls[1] = StartCall(Unwrap(command), TRUE)
            /\ state' = StateOf(Unwrap(command))]_vars
    /\ [](\A i \in 1..Len(trace) : trace[i].call \in StartCalls => pc \in {"exec", "wait"})
C33_Witness ==
    /\ pc = "wait"
    /\ state = "Sign"
    /\ command = Some(Sign(<<1>>, TRUE, Some(32)))
    /\ Len(trace) = 2
    /\ trace[1] = [call |-> "start_signing_round", message |-> <<1>>,
                   is_taproot |-> TRUE, merkle_root |-> Some(32), ok |-> TRUE]


\* ------------------------------------------------------------ initialization
\* the step asked the stacks node for the aggregate public key
AskedForKey == \E i \in 1..Len(NewCalls) : NewCalls[i].call = "get_aggregate_public_key"

\* C34: the state leaves Uninitialized only for Idle, in a call of initialize that
\* the stacks node answered, and is never Uninitialized again; a pass that
\* completes does not end in Uninitialized; and the stacks node is asked for the
\* aggregate public key only while the state is Uninitialized, so never after the
\* first completed pass
C34_InitializedOnce ==
    /\ [][(state = "Uninitialized" /\ state' # "Uninitialized") =>
            /\ pc = "init" /\ pc' = "event"
            /\ state' = "Idle"
            /\ AskedForKey
            /\ \E i \in 1..Len(NewCalls) :
                  /\ NewCalls[i].call = "get_aggregate_public_key"
                  /\ NewCalls[i].response.ok]_vars
    /\ [][state # "Uninitialized" => state' # "Uninitialized"]_vars
    /\ []((pc = "wait" /\ IsSome(returned)) => state # "Uninitialized")
    /\ [][(trace' # trace /\ \E i \in 1..Len(trace') :
                                trace'[i].call = "get_aggregate_public_key") =>
            (pc = "init" /\ state = "Uninitialized")]_vars
    /\ [](pc = "init" => (state = "Uninitialized" /\ ~IsSome(returned)))
C34_Witness ==
    /\ pc = "wait"
    /\ returned = Some(None)
    /\ state = "Idle"
    /\ retries = MaxRetries
    /\ IsSome(aggregate_key)


\* ------------------------------------------------------------ between passes
\* C35: when a pass has completed with the state Idle the queue is empty
C35_IdleMeansEmptyQueue ==
    (pc = "wait" /\ IsSome(returned) /\ state = "Idle") => commands = <<>>
C35_Witness ==
    /\ pc = "wait"
    /\ returned = Some(None)
    /\ state = "Idle"
    /\ commands = <<>>
    /\ started = <<InitId, 1>>
    /\ next_id = 2


\* C36: initialization runs in the first pass only, on a queue that holds at most
\* the one command handed to that pass, so the look at the front of the queue sees
\* every queued Dkg: initialization leaves at most one Dkg in the queue, adds none
\* when the operator's command is a Dkg, and the Dkg of initialize is queued or
\* started at most once ever
C36_FrontCheckSuffices ==
    /\ [](pc = "init" => (Len(commands) <= 1 /\ started = <<>> /\ ~IsSome(returned)))
    /\ [][pc = "init" =>
            /\ Occurrences(commands', Dkg) <= 1
            /\ Dkg \in Range(commands) => UNCHANGED <<commands, command_ids>>
            /\ commands' # commands =>
                  /\ Dkg \notin Range(commands)
                  /\ commands' = PushFront(commands, Dkg)
                  /\ command_ids' = PushFront(command_ids, InitId)]_vars
    /\ [](Occurrences(command_ids, InitId) + Occurrences(started, InitId)
            + (IF pc = "exec" /\ command_id = InitId THEN 1 ELSE 0) <= 1)
    /\ [][(InitId \in Range(command_ids') /\ InitId \notin Range(command_ids)) =>
            pc = "init"]_vars
C36_Witness ==
    /\ pc = "event"
    /\ IsCoordinator
    /\ state = "Idle"
    /\ ~IsSome(aggregate_key)
    /\ commands = <<Dkg>>
    /\ command_ids = <<1>>
    /\ trace # <<>>
    /\ Last(trace).call = "get_aggregate_public_key"


\* ------------------------------------------------------------ the committee
\* C37: on every node of the committee (signer_id ranges over it), the run loop
\* adds a command of its own, in initialize or for a block proposal, only when the
\* node is signer 0: a miners' batch queues one Sign per valid block on signer 0
\* and none on any other node, so one per block over the committee; on another
\* node every queued and every started command was handed in by the operator, and
\* the queue is processed there as on signer 0, with no look at the coordinator role
C37_OnlyCoordinatorCreates ==
    /\ [][(pc \in {"init", "event"} /\ commands' # commands) =>
            /\ signer_id = 0
            /\ Len(commands') > Len(commands)]_vars
    /\ [][EventStepOf(MinersContractId) =>
            Len(commands') - Len(commands) =
                (IF signer_id = 0
                 THEN Len(ValidBlocks(Unwrap(given'.event).modified_slots, given'.valid))
                 ELSE 0)]_vars
    /\ [](signer_id # 0 =>
            /\ InitId \notin Range(command_ids) \cup Range(started)
            /\ \A i \in 1..Len(commands) : commands[i] \in {Unwrap(c) : c \in EventCommands \ {None}})
    /\ [][(pc = "drain" /\ state = "Idle" /\ commands # <<>>) =>
            (pc' = "exec" /\ command' = Some(Head(commands)))]_vars
C37_Witness ==
    /\ signer_id # 0
    /\ pc = "wait"
    /\ state = "Sign"
    /\ started = <<1>>
    /\ command = Some(Sign(<<1>>, TRUE, Some(32)))
    /\ commands = <<>>


\* ------------------------------------------------------------ capability calls
\* how many calls of that name the sequence of calls holds
CallsOf(tr, name) == Len(SelectSeq(tr, LAMBDA e : e.call = name))

\* C38: the event step of a pass calls process_inbound_messages of the Signer once
\* and of the Coordinator once when the event is of the signers' contract, also
\* when no packet of the batch is left; for a miners' event, an event of another
\* contract and no event it calls neither
C38_CapabilitiesCalledOnce ==
    [][EventStep =>
          LET of_signers == /\ IsSome(given'.event)
                            /\ Unwrap(given'.event).contract_id = SignersContractId
              expected == IF of_signers THEN 1 ELSE 0
          IN  /\ \A name \in CapabilityCalls : CallsOf(trace', name) = expected
              /\ (of_signers /\ Verified(Unwrap(given'.event).modified_slots) = <<>>) =>
                    /\ trace'[1] = [call |-> "signer.process_inbound_messages",
                                    packets |-> <<>>, answer |-> given'.signer_answer]
                    /\ trace'[2] = [call |-> "coordinator.process_inbound_messages",
                                    packets |-> <<>>,
                                    answer |-> given'.coordinator_answer]]_vars
C38_Witness ==
    /\ pc = "drain"
    /\ IsSome(dispatched) /\ IsSome(given.event)
    /\ Unwrap(given.event).contract_id = SignersContractId
    /\ Unwrap(given.event).modified_slots = <<BlockChunk(1)>>
    /\ Len(trace) >= 2
    /\ trace[1].packets = <<>>
    /\ trace[2].call = "coordinator.process_inbound_messages"


\* ------------------------------------------------------------ small committees
\* C39: a run loop built from a configuration with at least 2 key ids has both
\* thresholds at least 1, and one built from a configuration with 1 key id has
\* both thresholds 0
C39_ThresholdsAtLeastOne ==
    (IsSome(coordinator_config) /\ ~Unwrap(coordinator_config).panic) =>
        LET built == Unwrap(coordinator_config)
        IN  /\ config.key_ids >= 2 => (built.threshold >= 1 /\ built.dkg_threshold >= 1)
            /\ config.key_ids = 1 => (built.threshold = 0 /\ built.dkg_threshold = 0)
C39_Witness ==
    /\ IsSome(coordinator_config)
    /\ ~Unwrap(coordinator_config).panic
    /\ config.key_ids = 2
    /\ Unwrap(coordinator_config).threshold = 1
    /\ Unwrap(coordinator_config).dkg_threshold = 1


\* ------------------------------------------------------------ run_analysis
\* the passes of a call that runs to its end, in their order
AllPasses(epoch) ==
    <<"ReadOnlyChecker",
      IF epoch \in {"Epoch20", "Epoch2_05"} THEN "TypeChecker2_05" ELSE "TypeChecker2_1",
      "TraitChecker", "ArithmeticOnlyChecker">>
IsPrefix(p, q) == Len(p) <= Len(q) /\ p = SubSeq(q, 1, Len(p))

\* C40: run_analysis runs the read-only check, the type check (the 2.05 checker
\* for the epochs 2.0 and 2.05, the 2.1 checker for the epochs 2.1 to 3.0), the
\* trait check and the arithmetic check, in this order; the analysis is in the
\* database only when all four ran without error and save_contract is true; a
\* call in which a pass failed, and a call for the epoch 1.0, returns the error
\* with the cost tracker and has saved nothing; a call that returns Ok ran all
\* four passes and saved the analysis exactly when save_contract is true
C40_AnalysisPasses ==
    IsSome(analysis) =>
        /\ IsPrefix(called.passes, AllPasses(called.epoch))
        /\ called.epoch = "Epoch10" => Len(called.passes) <= 1
        /\ called.saved =>
              /\ called.save_contract
              /\ called.passes = AllPasses(called.epoch)
              /\ ~IsSome(called.error)
              /\ called.store_interface => called.interface
        /\ IsSome(called.error) => (called.at \in {"return", "done"} /\ ~called.saved)
        /\ called.at = "done" =>
              LET result == Unwrap(called.result)
              IN  /\ result.ok <=> ~IsSome(called.error)
                  /\ (Len(called.passes) < 4 \/ called.epoch = "Epoch10") =>
                        (~result.ok /\ result.cost_tracker /\ ~called.saved)
                  /\ result.ok => /\ called.passes = AllPasses(called.epoch)
                                  /\ called.saved = called.save_contract
C40_Witness ==
    /\ IsSome(analysis)
    /\ called.at = "done"
    /\ called.epoch = "Epoch2_05"
    /\ called.passes = <<"ReadOnlyChecker", "TypeChecker2_05", "TraitChecker",
                         "ArithmeticOnlyChecker">>
    /\ called.saved
    /\ Unwrap(called.result).ok

====
